---- MODULE Spec2Model ----
(***************************************************************************)
(* Graph isomorphism detection of graph-isomorphism/src: the Graph         *)
(* container, checkInvariants, the brute-force search detectIsomorphism    *)
(* and the degree-partitioned search detectIsomorphismOptimized; and the    *)
(* directory scaffolding of appworld: buildOrganizationBlueprint,          *)
(* listBlueprintPaths, materializeBlueprint and, from appworld/common,     *)
(* assembleMirroredOrganizationBlueprint, materializeOrganizationBlueprint.*)
(*                                                                         *)
(* Vertex identifiers are JavaScript strings or numbers.  An identifier is *)
(* written here as a string whose first letter is its JavaScript type:     *)
(* "n1" is the number 1, "s1" the string '1', "sA" the string 'A'.         *)
(***************************************************************************)
EXTENDS Integers, Sequences, FiniteSets, TLC

\* ------------------------------------------------------------------------
\* Bounds of the model
\* ------------------------------------------------------------------------

\* addEdge calls per graph in Spec and SpecDeclared
MaxEdges == 2

\* addEdge calls per graph in SpecDeep
MaxEdgesDeep == 3

\* addEdge calls on the graph in SpecGraph
MaxEdgesGraph == 3

\* addEdge calls per graph in SpecProgress
MaxEdgesListed == 5

\* names per list that a caller passes to a blueprint builder
MaxItems == 1

\* materialize calls a caller makes on one blueprint
MaxRuns == 2

\* The identifiers the caller of the first and of the second graph uses, in
\* the order in which it first uses them.
Names1 == <<"n1", "s1", "sA">>
Names2 == <<"n1", "n2", "n3">>

\* maxVertices values a caller passes (besides leaving the option out)
Ceilings == {2}

\* ------------------------------------------------------------------------
\* Helpers on sequences
\* ------------------------------------------------------------------------

Range(s) == {s[i] : i \in DOMAIN s}

\* Array.prototype.includes
Includes(s, x) == \E i \in DOMAIN s : s[i] = x

\* ------------------------------------------------------------------------
\* class Graph
\* ------------------------------------------------------------------------

\* constructor(isDirected = false)
NewGraph(isDirected) ==
    [isDirected    |-> isDirected,
     adjacencyList |-> [v \in {} |-> <<>>],
     vertices      |-> <<>>,
     edges         |-> <<>>]

\* Set.prototype.has on this.vertices (a Set iterates in insertion order,
\* kept here as a duplicate-free sequence)
HasVertex(g, vertex) == Includes(g.vertices, vertex)

\* addVertex that records the vertex without giving it a neighbor list
addVertex_NoList(g, vertex) ==
    IF ~HasVertex(g, vertex)
    THEN [g EXCEPT !.vertices = Append(@, vertex)]
    ELSE g

\* addVertex without the has() test: Set.add keeps the Set as it is, Map.set
\* replaces the neighbor list by a new empty one
addVertex_Resets(g, vertex) ==
    [g EXCEPT !.vertices = IF HasVertex(g, vertex) THEN @ ELSE Append(@, vertex),
              !.adjacencyList = [v \in DOMAIN @ \cup {vertex} |->
                                   IF v = vertex THEN <<>> ELSE @[v]]]

addVertex(g, vertex) ==
    IF ~HasVertex(g, vertex)
    THEN [g EXCEPT !.vertices = Append(@, vertex),
                   !.adjacencyList = [v \in DOMAIN @ \cup {vertex} |->
                                        IF v = vertex THEN <<>> ELSE @[v]]]
    ELSE g

\* addEdge that never adds the reverse entry
addEdge_NoReverse(g, v1, v2) ==
    LET ga == addVertex(addVertex(g, v1), v2)
    IN  [ga EXCEPT !.adjacencyList[v1] = Append(@, v2),
                   !.edges = Append(@, <<v1, v2>>)]

addEdge(g, v1, v2) ==
    LET ga == addVertex(addVertex(g, v1), v2)
        gb == [ga EXCEPT !.adjacencyList[v1] = Append(@, v2),
                         !.edges = Append(@, <<v1, v2>>)]
    IN  IF ~gb.isDirected
        THEN [gb EXCEPT !.adjacencyList[v2] = Append(@, v1)]
        ELSE gb

getNeighbors(g, vertex) ==
    IF vertex \in DOMAIN g.adjacencyList THEN g.adjacencyList[vertex] ELSE <<>>

\* a getNeighbors that gives an unknown vertex a neighbor list of its own
\* (get-or-create) and returns it
GetNeighborsOutcome_Creates(g, vertex) ==
    [ret  |-> getNeighbors(g, vertex),
     this |-> [g EXCEPT !.adjacencyList = [v \in DOMAIN @ \cup {vertex} |->
                                             IF v \in DOMAIN @ THEN @[v] ELSE <<>>]]]

\* a call of getNeighbors(vertex): ret is the returned array, this the
\* receiver after the call (Map.get adds no entry; the [] for an unknown
\* vertex is a new array, not stored)
GetNeighborsOutcome(g, vertex) ==
    [ret |-> getNeighbors(g, vertex), this |-> g]

\* getDegree that counts the distinct neighbors
getDegree_DistinctNeighbors(g, vertex) == Cardinality(Range(getNeighbors(g, vertex)))

getDegree(g, vertex) == Len(getNeighbors(g, vertex))

areAdjacent(g, v1, v2) ==
    IF v1 \in DOMAIN g.adjacencyList
    THEN Includes(g.adjacencyList[v1], v2)
    ELSE FALSE

getVertexCount(g) == Len(g.vertices)

\* an edge count that counts a repeated edge once
getEdgeCount_Distinct(g) == Cardinality(Range(g.edges))

getEdgeCount(g) == IF g.isDirected THEN Len(g.edges) ELSE Len(g.edges)

\* a degree list that only tells whether a vertex has a neighbor
DegreesOf_HasNeighbor(g) ==
    [i \in DOMAIN g.vertices |-> IF getDegree(g, g.vertices[i]) > 0 THEN 1 ELSE 0]

\* Array.from(this.vertices).map(v => this.getDegree(v))
DegreesOf(g) == [i \in DOMAIN g.vertices |-> getDegree(g, g.vertices[i])]

\* Array.prototype.sort((a, b) => b - a) on an array of numbers: the
\* insertion of each element into the descending prefix before it.
RECURSIVE InsertDesc(_, _)
InsertDesc(s, x) ==
    IF s = <<>> THEN <<x>>
    ELSE IF x > Head(s) THEN <<x>> \o s
    ELSE <<Head(s)>> \o InsertDesc(Tail(s), x)

RECURSIVE SortDesc(_)
SortDesc(s) ==
    IF s = <<>> THEN <<>>
    ELSE InsertDesc(SortDesc(SubSeq(s, 1, Len(s) - 1)), s[Len(s)])

\* Array.prototype.reverse
Reverse(s) == [i \in DOMAIN s |-> s[Len(s) + 1 - i]]

\* getDegreeSequence() that reorders the receiver's own vertices in place
getDegreeSequence_InPlace(g) ==
    LET degrees == DegreesOf(g)
    IN  [ret |-> SortDesc(degrees), this |-> [g EXCEPT !.vertices = Reverse(@)]]

\* getDegreeSequence() without the sort
getDegreeSequence_Unsorted(g) ==
    LET degrees == DegreesOf(g)
    IN  [ret |-> degrees, this |-> g]

\* getDegreeSequence() with the comparator (a, b) => a - b
getDegreeSequence_Ascending(g) ==
    LET degrees == DegreesOf(g)
    IN  [ret |-> Reverse(SortDesc(degrees)), this |-> g]

\* getDegreeSequence(): ret is the returned array, this the receiver after
\* the call (sort works in place on the fresh array degrees, so the graph is
\* as it was).
getDegreeSequence(g) ==
    LET degrees == DegreesOf(g)
    IN  [ret |-> SortDesc(degrees), this |-> g]

\* ------------------------------------------------------------------------
\* JavaScript values
\* ------------------------------------------------------------------------

Null == [type |-> "null"]
Undefined == "undefined"

\* ToPropertyKey of a vertex identifier: the number 1 and the string '1'
\* name the same property of an object.
PropertyKey(v) ==
    CASE v = "sA" -> "A"
      [] v = "n1" -> "1"
      [] v = "s1" -> "1"
      [] v = "n2" -> "2"
      [] v = "n3" -> "3"
      [] OTHER    -> v

\* A Map is kept as the sequence of its entries <<key, value>> in insertion
\* order.  Map.prototype.has / get / set:
MapHas(m, k) == \E i \in DOMAIN m : m[i][1] = k

MapGet(m, k) ==
    IF MapHas(m, k)
    THEN m[CHOOSE i \in DOMAIN m : m[i][1] = k][2]
    ELSE Undefined

MapSet(m, k, x) ==
    IF MapHas(m, k)
    THEN [i \in DOMAIN m |-> IF m[i][1] = k THEN <<k, x>> ELSE m[i]]
    ELSE Append(m, <<k, x>>)

MapKeys(m) == [i \in DOMAIN m |-> m[i][1]]

\* Object.fromEntries(map): one property per distinct property key, a later
\* entry overwriting an earlier one with the same key.
ObjectFromEntries(m) ==
    [type  |-> "object",
     props |-> [k \in {PropertyKey(m[i][1]) : i \in DOMAIN m} |->
                  LET last == CHOOSE i \in DOMAIN m :
                                /\ PropertyKey(m[i][1]) = k
                                /\ \A j \in DOMAIN m :
                                     PropertyKey(m[j][1]) = k => j <= i
                  IN  m[last][2]]]

\* obj[v] for a vertex identifier v
ObjectGet(obj, v) ==
    IF PropertyKey(v) \in DOMAIN obj.props
    THEN obj.props[PropertyKey(v)]
    ELSE Undefined

\* Number.prototype.toString of a natural number, as its characters
Digits == <<"0", "1", "2", "3", "4", "5", "6", "7", "8", "9">>

RECURSIVE NumberToString(_)
NumberToString(n) ==
    IF n < 10 THEN <<Digits[n + 1]>>
    ELSE NumberToString(n \div 10) \o <<Digits[(n % 10) + 1]>>

\* JSON.stringify of an array of natural numbers, as its characters
RECURSIVE JoinNumbers(_)
JoinNumbers(arr) ==
    IF arr = <<>> THEN <<>>
    ELSE IF Len(arr) = 1 THEN NumberToString(arr[1])
    ELSE NumberToString(arr[1]) \o <<",">> \o JoinNumbers(Tail(arr))

JSONStringify(arr) == <<"[">> \o JoinNumbers(arr) \o <<"]">>

\* ------------------------------------------------------------------------
\* isomorphism.js
\* ------------------------------------------------------------------------

\* checkInvariants that compares the edge counts with <= instead of ===
checkInvariants_OneSided(ga, gb) ==
    LET ds1 == getDegreeSequence(ga)
        ds2 == getDegreeSequence(gb)
        checks ==
            [vertexCount    |-> getVertexCount(ga) = getVertexCount(gb),
             edgeCount      |-> getEdgeCount(ga) <= getEdgeCount(gb),
             degreeSequence |-> JSONStringify(ds1.ret) = JSONStringify(ds2.ret)]
        allPass == \A k \in DOMAIN checks : checks[k]
    IN  [ret |-> [isomorphismPossible |-> allPass,
                  checks  |-> checks,
                  details |-> [g1 |-> [vertices |-> getVertexCount(ga),
                                       edges    |-> getEdgeCount(ga),
                                       degrees  |-> ds1.ret],
                               g2 |-> [vertices |-> getVertexCount(gb),
                                       edges    |-> getEdgeCount(gb),
                                       degrees  |-> ds2.ret]]],
         g1  |-> ds1.this,
         g2  |-> ds2.this]

\* checkInvariants whose verdict leaves the degree sequences out
checkInvariants_NoDegrees(ga, gb) ==
    LET ds1 == getDegreeSequence(ga)
        ds2 == getDegreeSequence(gb)
        checks ==
            [vertexCount    |-> getVertexCount(ga) = getVertexCount(gb),
             edgeCount      |-> getEdgeCount(ga) = getEdgeCount(gb),
             degreeSequence |-> JSONStringify(ds1.ret) = JSONStringify(ds2.ret)]
        allPass == checks.vertexCount /\ checks.edgeCount
    IN  [ret |-> [isomorphismPossible |-> allPass,
                  checks  |-> checks,
                  details |-> [g1 |-> [vertices |-> getVertexCount(ga),
                                       edges    |-> getEdgeCount(ga),
                                       degrees  |-> ds1.ret],
                               g2 |-> [vertices |-> getVertexCount(gb),
                                       edges    |-> getEdgeCount(gb),
                                       degrees  |-> ds2.ret]]],
         g1  |-> ds1.this,
         g2  |-> ds2.this]

\* checkInvariants(g1, g2): ret is the returned object, g1 and g2 are the
\* argument graphs after the call.
checkInvariants(ga, gb) ==
    LET ds1 == getDegreeSequence(ga)
        ds2 == getDegreeSequence(gb)
        checks ==
            [vertexCount    |-> getVertexCount(ga) = getVertexCount(gb),
             edgeCount      |-> getEdgeCount(ga) = getEdgeCount(gb),
             degreeSequence |-> JSONStringify(ds1.ret) = JSONStringify(ds2.ret)]
        allPass == \A k \in DOMAIN checks : checks[k]
    IN  [ret |-> [isomorphismPossible |-> allPass,
                  checks  |-> checks,
                  details |-> [g1 |-> [vertices |-> getVertexCount(ga),
                                       edges    |-> getEdgeCount(ga),
                                       degrees  |-> ds1.ret],
                               g2 |-> [vertices |-> getVertexCount(gb),
                                       edges    |-> getEdgeCount(gb),
                                       degrees  |-> ds2.ret]]],
         g1  |-> ds1.this,
         g2  |-> ds2.this]

\* arr.slice(0, i).concat(arr.slice(i + 1)), i counted from 1
Remaining(arr, i) == SubSeq(arr, 1, i - 1) \o SubSeq(arr, i + 1, Len(arr))

\* permute(arr): all permutations of arr, in generation order
RECURSIVE permute(_)
RECURSIVE PermuteFrom(_, _)
PermuteFrom(arr, i) ==
    IF i > Len(arr) THEN <<>>
    ELSE LET current == arr[i]
             perms   == permute(Remaining(arr, i))
         IN  [k \in DOMAIN perms |-> <<current>> \o perms[k]]
             \o PermuteFrom(arr, i + 1)

\* permute whose loop starts at the second element
permute_SkipsFirst(arr) ==
    IF Len(arr) <= 1 THEN <<arr>> ELSE PermuteFrom(arr, 2)

permute(arr) ==
    IF Len(arr) <= 1 THEN <<arr>> ELSE PermuteFrom(arr, 1)

\* isValidMapping that checks the edges of g1 only, not its non-edges
isValidMapping_EdgesOnly(ga, gb, mapping) ==
    LET vertices1 == ga.vertices
    IN  \A i, j \in DOMAIN vertices1 :
            LET v1 == vertices1[i]
                v2 == vertices1[j]
                adjacent1 == areAdjacent(ga, v1, v2)
                adjacent2 == areAdjacent(gb, MapGet(mapping, v1), MapGet(mapping, v2))
            IN  adjacent1 => adjacent2

\* isValidMapping(g1, g2, mapping), mapping a Map
isValidMapping(ga, gb, mapping) ==
    LET vertices1 == ga.vertices
    IN  \A i, j \in DOMAIN vertices1 :
            LET v1 == vertices1[i]
                v2 == vertices1[j]
                adjacent1 == areAdjacent(ga, v1, v2)
                adjacent2 == areAdjacent(gb, MapGet(mapping, v1), MapGet(mapping, v2))
            IN  adjacent1 = adjacent2

\* perm[i] of a JavaScript array, i counted from 1
At(arr, i) == IF i \in DOMAIN arr THEN arr[i] ELSE Undefined

\* for (let i = 0; i < keys.length; i++) mapping.set(keys[i], perm[i])
RECURSIVE SetAll(_, _, _, _)
SetAll(mapping, keys, perm, i) ==
    IF i > Len(keys) THEN mapping
    ELSE SetAll(MapSet(mapping, keys[i], At(perm, i)), keys, perm, i + 1)

\* The options object: maxVertices and onProgress may be left out.
\* onProgress is "absent", "records" (a callback that returns normally),
\* or a callback that raises an error on its first ("raisesFirst") or on its
\* second ("raisesSecond") invocation and returns normally otherwise.
Options ==
    [hasMaxVertices : {FALSE}, maxVertices : {0}, onProgress : {"absent", "records"}]
    \cup
    [hasMaxVertices : {TRUE}, maxVertices : Ceilings, onProgress : {"absent", "records"}]

DefaultMaxVertices == 10
DefaultMaxVerticesOptimized == 12

\* destructuring that never reads options.maxVertices
MaxVerticesOf_IgnoresOption(options, default) == default

\* const { maxVertices = <default> } = options
MaxVerticesOf(options, default) ==
    IF options.hasMaxVertices THEN options.maxVertices ELSE default

\* The same options with a callback that raises.
RaisingOptions ==
    [hasMaxVertices : {FALSE}, maxVertices : {0},
     onProgress : {"raisesFirst", "raisesSecond"}]

\* the number of calls of onProgress a log holds
Invocations(log) ==
    Cardinality({i \in DOMAIN log : log[i].kind = "progress"})

\* a search that catches what onProgress raises and carries on
Raises_Swallowed(options, invocation) == FALSE

\* onProgress raises when it is called for the invocation-th time
Raises(options, invocation) ==
    \/ options.onProgress = "raisesFirst" /\ invocation = 1
    \/ options.onProgress = "raisesSecond" /\ invocation = 2

\* What a call did besides returning, in order: "checkInvariants",
\* "sizeCheck", "permute" (a call of permute from the search function),
\* "candidate" (a mapping built), "progress" (a call of onProgress),
\* "validate" (a call of isValidMapping).
Event(kind, n) == [kind |-> kind, n |-> n]

\* a step that an iteration of a loop did not take
Skip == [kind |-> "skip"]
Taken(e) == e.kind # "skip"

\* the lowest number of a non-empty set of numbers
Lowest(S) == CHOOSE k \in S : \A j \in S : k <= j

\* a loop that reports progress after a failed validation only
BruteLoop_ReportsFailures(ga, gb, options, invariantCheck, permutations, i, log) ==
    LET count == Len(permutations)
        reports == options.onProgress # "absent"
        mapping(k) == SetAll(<<>>, ga.vertices, permutations[k], 1)
        leaving == {k \in i..count : isValidMapping(ga, gb, mapping(k))}
        last == IF leaving = {} THEN count ELSE Lowest(leaving)
        steps(k) == <<Event("candidate", k),
                      Event("validate", k),
                      IF reports /\ k \notin leaving
                      THEN [kind |-> "progress", n |-> k, checked |-> k, total |-> count]
                      ELSE Skip>>
        done == SelectSeq([j \in 1..(3 * (last - i + 1)) |->
                             steps(i + ((j - 1) \div 3))[((j - 1) % 3) + 1]], Taken)
    IN  IF leaving = {}
        THEN [ret |-> [isIsomorphic |-> "false",
                       reason |-> "No valid mapping found after checking all permutations",
                       invariantCheck |-> invariantCheck,
                       mapping |-> Null,
                       permutationsChecked |-> count],
              log |-> log \o done]
        ELSE [ret |-> [isIsomorphic |-> "true",
                       mapping |-> ObjectFromEntries(mapping(last)),
                       invariantCheck |-> invariantCheck,
                       permutationsChecked |-> last],
              log |-> log \o done]

\* a loop that gives up after ten permutations
BruteLoop_GivesUp(ga, gb, options, invariantCheck, permutations, i, log) ==
    LET count == IF Len(permutations) > 10 THEN 10 ELSE Len(permutations)
        mapping(k) == SetAll(<<>>, ga.vertices, permutations[k], 1)
        leaving == {k \in i..count : isValidMapping(ga, gb, mapping(k))}
        last == IF leaving = {} THEN count ELSE Lowest(leaving)
        done == [j \in 1..(2 * (last - i + 1)) |->
                   Event(IF j % 2 = 1 THEN "candidate" ELSE "validate", i + ((j - 1) \div 2))]
    IN  IF leaving = {}
        THEN [ret |-> [isIsomorphic |-> "false",
                       reason |-> "No valid mapping found after checking all permutations",
                       invariantCheck |-> invariantCheck,
                       mapping |-> Null,
                       permutationsChecked |-> count],
              log |-> log \o done]
        ELSE [ret |-> [isIsomorphic |-> "true",
                       mapping |-> ObjectFromEntries(mapping(last)),
                       invariantCheck |-> invariantCheck,
                       permutationsChecked |-> last],
              log |-> log \o done]

\* a loop that increments checkedCount only after a failed validation
BruteLoop_CountsFailures(ga, gb, options, invariantCheck, permutations, i, log) ==
    LET count == Len(permutations)
        mapping(k) == SetAll(<<>>, ga.vertices, permutations[k], 1)
        leaving == {k \in i..count : isValidMapping(ga, gb, mapping(k))}
        last == IF leaving = {} THEN count ELSE Lowest(leaving)
        done == [j \in 1..(2 * (last - i + 1)) |->
                   Event(IF j % 2 = 1 THEN "candidate" ELSE "validate", i + ((j - 1) \div 2))]
    IN  IF leaving = {}
        THEN [ret |-> [isIsomorphic |-> "false",
                       reason |-> "No valid mapping found after checking all permutations",
                       invariantCheck |-> invariantCheck,
                       mapping |-> Null,
                       permutationsChecked |-> count],
              log |-> log \o done]
        ELSE [ret |-> [isIsomorphic |-> "true",
                       mapping |-> ObjectFromEntries(mapping(last)),
                       invariantCheck |-> invariantCheck,
                       permutationsChecked |-> last - 1],
              log |-> log \o done]

\* The loop of detectIsomorphism over the permutations, from the i-th on
\* (for (const perm of permutations) { checkedCount++; ... }).  Iteration k
\* builds the mapping of the k-th permutation, calls onProgress if there is
\* one, and validates the mapping.  The loop is left by the first iteration
\* in which onProgress raises or isValidMapping returns true; if there is
\* none, every permutation is tried and the function returns the failure
\* after the loop.
BruteLoop(ga, gb, options, invariantCheck, permutations, i, log) ==
    LET count == Len(permutations)
        reports == options.onProgress # "absent"
        mapping(k) == SetAll(<<>>, ga.vertices, permutations[k], 1)
        \* iteration k makes the (k - i + 1)-th call of onProgress of the loop
        raises(k) == reports /\ Raises(options, Invocations(log) + k - i + 1)
        leaving == {k \in i..count : raises(k) \/ isValidMapping(ga, gb, mapping(k))}
        last == IF leaving = {} THEN count ELSE Lowest(leaving)
        \* what iteration k does, in order
        steps(k) == <<Event("candidate", k),
                      IF reports
                      THEN [kind |-> "progress", n |-> k, checked |-> k, total |-> count]
                      ELSE Skip,
                      IF raises(k) THEN Skip ELSE Event("validate", k)>>
        done == SelectSeq([j \in 1..(3 * (last - i + 1)) |->
                             steps(i + ((j - 1) \div 3))[((j - 1) % 3) + 1]], Taken)
    IN  IF leaving = {}
        THEN [ret |-> [isIsomorphic |-> "false",
                       reason |-> "No valid mapping found after checking all permutations",
                       invariantCheck |-> invariantCheck,
                       mapping |-> Null,
                       permutationsChecked |-> count],
              log |-> log \o done]
        ELSE IF raises(last)
        THEN [ret |-> [threw |-> "Error"], log |-> log \o done]
        ELSE [ret |-> [isIsomorphic |-> "true",
                       mapping |-> ObjectFromEntries(mapping(last)),
                       invariantCheck |-> invariantCheck,
                       permutationsChecked |-> last],
              log |-> log \o done]

\* detectIsomorphism comparing the vertex count with the ceiling first
detectIsomorphism_CeilingFirst(ga, gb, options) ==
    LET maxVertices == MaxVerticesOf(options, DefaultMaxVertices)
        n == getVertexCount(ga)
        ic == checkInvariants(ga, gb)
        invariantCheck == ic.ret
        log0 == <<Event("sizeCheck", n)>>
    IN  IF n > maxVertices
        THEN [ret |-> [isIsomorphic |-> "null",
                       reason |-> "Graph too large. Use specialized algorithms.",
                       invariantCheck |-> Null,
                       mapping |-> Null],
              g1 |-> ga, g2 |-> gb, log |-> log0]
        ELSE IF ~invariantCheck.isomorphismPossible
        THEN [ret |-> [isIsomorphic |-> "false",
                       reason |-> "Invariants do not match",
                       invariantCheck |-> invariantCheck,
                       mapping |-> Null],
              g1 |-> ic.g1, g2 |-> ic.g2,
              log |-> Append(log0, Event("checkInvariants", 0))]
        ELSE LET permutations == permute(ic.g2.vertices)
                 out == BruteLoop(ic.g1, ic.g2, options, invariantCheck, permutations, 1,
                                  log0 \o <<Event("checkInvariants", 0),
                                            Event("permute", Len(permutations))>>)
             IN  [ret |-> out.ret, g1 |-> ic.g1, g2 |-> ic.g2, log |-> out.log]

\* detectIsomorphism without the early return on failed invariants
detectIsomorphism_NoEarlyReturn(ga, gb, options) ==
    LET maxVertices == MaxVerticesOf(options, DefaultMaxVertices)
        ic == checkInvariants(ga, gb)
        invariantCheck == ic.ret
        n == getVertexCount(ic.g1)
        log0 == <<Event("checkInvariants", 0)>>
    IN  IF n > maxVertices
        THEN [ret |-> [isIsomorphic |-> "null",
                       reason |-> "Graph too large. Use specialized algorithms.",
                       invariantCheck |-> invariantCheck,
                       mapping |-> Null],
              g1 |-> ic.g1, g2 |-> ic.g2,
              log |-> Append(log0, Event("sizeCheck", n))]
        ELSE LET permutations == permute(ic.g2.vertices)
                 out == BruteLoop(ic.g1, ic.g2, options, invariantCheck, permutations, 1,
                                  log0 \o <<Event("sizeCheck", n),
                                            Event("permute", Len(permutations))>>)
             IN  [ret |-> out.ret, g1 |-> ic.g1, g2 |-> ic.g2, log |-> out.log]

\* detectIsomorphism(g1, g2, options): ret is the returned object, g1 and g2
\* the argument graphs after the call, log what the call did.
detectIsomorphism(ga, gb, options) ==
    LET maxVertices == MaxVerticesOf(options, DefaultMaxVertices)
        ic == checkInvariants(ga, gb)
        invariantCheck == ic.ret
        n == getVertexCount(ic.g1)
        log0 == <<Event("checkInvariants", 0)>>
    IN  IF ~invariantCheck.isomorphismPossible
        THEN [ret |-> [isIsomorphic |-> "false",
                       reason |-> "Invariants do not match",
                       invariantCheck |-> invariantCheck,
                       mapping |-> Null],
              g1 |-> ic.g1, g2 |-> ic.g2, log |-> log0]
        ELSE IF n > maxVertices
        THEN [ret |-> [isIsomorphic |-> "null",
                       reason |-> "Graph too large. Use specialized algorithms.",
                       invariantCheck |-> invariantCheck,
                       mapping |-> Null],
              g1 |-> ic.g1, g2 |-> ic.g2,
              log |-> Append(log0, Event("sizeCheck", n))]
        ELSE LET permutations == permute(ic.g2.vertices)
                 out == BruteLoop(ic.g1, ic.g2, options, invariantCheck, permutations, 1,
                                  log0 \o <<Event("sizeCheck", n),
                                            Event("permute", Len(permutations))>>)
             IN  [ret |-> out.ret, g1 |-> ic.g1, g2 |-> ic.g2, log |-> out.log]

\* for (const v of g.vertices) { ... degreeGroups.get(degree).push(v) },
\* from the i-th vertex on: a Map from degree to the array of the vertices
\* of that degree.
RECURSIVE GroupByDegree(_, _, _)
\* a grouping that puts all vertices in one group, whatever their degree
GroupByDegree_OneGroup(g, i, groups) ==
    IF g.vertices = <<>> THEN <<>> ELSE <<<<0, g.vertices>>>>

GroupByDegree(g, i, groups) ==
    IF i > Len(g.vertices) THEN groups
    ELSE LET v == g.vertices[i]
             degree == getDegree(g, v)
             withKey == IF ~MapHas(groups, degree)
                        THEN MapSet(groups, degree, <<>>)
                        ELSE groups
         IN  GroupByDegree(g, i + 1,
                           MapSet(withKey, degree, Append(MapGet(withKey, degree), v)))

\* function* generateMappings(degrees, index, currentMapping): the sequence
\* of what the generator produces, in order.  An item is a yielded Map, or
\* the TypeError that permute(undefined) raises when degreeGroups2 has no
\* group of that degree (nothing is produced after it).  index counts from 0.
RECURSIVE generateMappings(_, _, _, _, _)
RECURSIVE GenerateOver(_, _, _, _, _, _, _, _)
\* a generator that walks the permutations of a group from the last to the first
GenerateOver_Backwards(degreeGroups1, degreeGroups2, degrees, index, currentMapping, perms, lo, hi) ==
    IF lo > hi THEN <<>>
    ELSE IF lo = hi
    THEN LET group1 == MapGet(degreeGroups1, degrees[index + 1])
             newMapping == SetAll(currentMapping, group1, perms[Len(perms) + 1 - lo], 1)
         IN  generateMappings(degreeGroups1, degreeGroups2, degrees, index + 1, newMapping)
    ELSE LET mid == (lo + hi) \div 2
         IN  GenerateOver(degreeGroups1, degreeGroups2, degrees, index,
                          currentMapping, perms, lo, mid)
             \o GenerateOver(degreeGroups1, degreeGroups2, degrees, index,
                             currentMapping, perms, mid + 1, hi)

\* for (const perm of perms) { ...; yield* generateMappings(degrees,
\* index + 1, newMapping) } over the permutations lo..hi: what the loop
\* yields, in order (the range is split in halves, which are walked one
\* after the other).
GenerateOver(degreeGroups1, degreeGroups2, degrees, index, currentMapping, perms, lo, hi) ==
    IF lo > hi THEN <<>>
    ELSE IF lo = hi
    THEN LET group1 == MapGet(degreeGroups1, degrees[index + 1])
             newMapping == SetAll(currentMapping, group1, perms[lo], 1)
         IN  generateMappings(degreeGroups1, degreeGroups2, degrees, index + 1, newMapping)
    ELSE LET mid == (lo + hi) \div 2
         IN  GenerateOver(degreeGroups1, degreeGroups2, degrees, index,
                          currentMapping, perms, lo, mid)
             \o GenerateOver(degreeGroups1, degreeGroups2, degrees, index,
                             currentMapping, perms, mid + 1, hi)

generateMappings(degreeGroups1, degreeGroups2, degrees, index, currentMapping) ==
    IF index = Len(degrees)
    THEN <<[kind |-> "yield", mapping |-> currentMapping]>>
    ELSE LET degree == degrees[index + 1]
         IN  IF ~MapHas(degreeGroups2, degree)
             THEN <<[kind |-> "TypeError", mapping |-> <<>>]>>
             ELSE LET perms == permute(MapGet(degreeGroups2, degree))
                  IN  GenerateOver(degreeGroups1, degreeGroups2, degrees, index,
                                   currentMapping, perms, 1, Len(perms))

\* onProgress is called for every ProgressEvery-th candidate
ProgressEvery == 100

\* a loop that calls onProgress for every candidate
OptimizedLoop_ReportsAll(ga, gb, options, invariantCheck, items, i, log) ==
    LET count == Len(items)
        fails(k) == items[k].kind = "TypeError"
        reports == options.onProgress # "absent"
        leaving == {k \in i..count :
                       fails(k) \/ isValidMapping(ga, gb, items[k].mapping)}
        last == IF leaving = {} THEN count ELSE Lowest(leaving)
        steps(k) == IF fails(k) THEN <<Skip, Skip, Skip>>
                    ELSE <<Event("candidate", k),
                           IF reports
                           THEN [kind |-> "progress", n |-> k, checked |-> k]
                           ELSE Skip,
                           Event("validate", k)>>
        done == SelectSeq([j \in 1..(3 * (last - i + 1)) |->
                             steps(i + ((j - 1) \div 3))[((j - 1) % 3) + 1]], Taken)
    IN  IF leaving = {}
        THEN [ret |-> [isIsomorphic |-> "false",
                       reason |-> "No valid mapping found",
                       invariantCheck |-> invariantCheck,
                       mapping |-> Null,
                       permutationsChecked |-> count,
                       optimized |-> TRUE],
              log |-> log \o done]
        ELSE IF fails(last)
        THEN [ret |-> [threw |-> "TypeError"], log |-> log \o done]
        ELSE [ret |-> [isIsomorphic |-> "true",
                       mapping |-> ObjectFromEntries(items[last].mapping),
                       invariantCheck |-> invariantCheck,
                       permutationsChecked |-> last,
                       optimized |-> TRUE],
              log |-> log \o done]

\* The loop of detectIsomorphismOptimized over the generated mappings, from
\* the i-th on (for (const mapping of generateMappings(...)) { ... }).
\* Iteration k takes the k-th item of the generator, calls onProgress when k
\* is a multiple of ProgressEvery, and validates the mapping.  The loop is
\* left by the first iteration in which the generator fails, onProgress
\* raises or isValidMapping returns true; if there is none, every mapping is
\* tried and the function returns the failure after the loop.
OptimizedLoop(ga, gb, options, invariantCheck, items, i, log) ==
    LET count == Len(items)
        fails(k) == items[k].kind = "TypeError"
        reports(k) == options.onProgress # "absent" /\ k % ProgressEvery = 0
        \* the calls of onProgress the loop has made up to iteration k
        calls(k) == (k \div ProgressEvery) - ((i - 1) \div ProgressEvery)
        raises(k) == reports(k) /\ Raises(options, Invocations(log) + calls(k))
        leaving == {k \in i..count :
                       \/ fails(k)
                       \/ raises(k)
                       \/ isValidMapping(ga, gb, items[k].mapping)}
        last == IF leaving = {} THEN count ELSE Lowest(leaving)
        \* what iteration k does, in order
        steps(k) == IF fails(k) THEN <<Skip, Skip, Skip>>
                    ELSE <<Event("candidate", k),
                           IF reports(k)
                           THEN [kind |-> "progress", n |-> k, checked |-> k]
                           ELSE Skip,
                           IF raises(k) THEN Skip ELSE Event("validate", k)>>
        done == SelectSeq([j \in 1..(3 * (last - i + 1)) |->
                             steps(i + ((j - 1) \div 3))[((j - 1) % 3) + 1]], Taken)
    IN  IF leaving = {}
        THEN [ret |-> [isIsomorphic |-> "false",
                       reason |-> "No valid mapping found",
                       invariantCheck |-> invariantCheck,
                       mapping |-> Null,
                       permutationsChecked |-> count,
                       optimized |-> TRUE],
              log |-> log \o done]
        ELSE IF fails(last)
        THEN [ret |-> [threw |-> "TypeError"], log |-> log \o done]
        ELSE IF raises(last)
        THEN [ret |-> [threw |-> "Error"], log |-> log \o done]
        ELSE [ret |-> [isIsomorphic |-> "true",
                       mapping |-> ObjectFromEntries(items[last].mapping),
                       invariantCheck |-> invariantCheck,
                       permutationsChecked |-> last,
                       optimized |-> TRUE],
              log |-> log \o done]

\* detectIsomorphismOptimized(g1, g2, options)
detectIsomorphismOptimized(ga, gb, options) ==
    LET maxVertices == MaxVerticesOf(options, DefaultMaxVerticesOptimized)
        ic == checkInvariants(ga, gb)
        invariantCheck == ic.ret
        n == getVertexCount(ic.g1)
        log0 == <<Event("checkInvariants", 0)>>
    IN  IF ~invariantCheck.isomorphismPossible
        THEN [ret |-> [isIsomorphic |-> "false",
                       reason |-> "Invariants do not match",
                       invariantCheck |-> invariantCheck,
                       mapping |-> Null],
              g1 |-> ic.g1, g2 |-> ic.g2, log |-> log0]
        ELSE IF n > maxVertices
        THEN [ret |-> [isIsomorphic |-> "null",
                       reason |-> "Graph too large",
                       invariantCheck |-> invariantCheck,
                       mapping |-> Null],
              g1 |-> ic.g1, g2 |-> ic.g2,
              log |-> Append(log0, Event("sizeCheck", n))]
        ELSE LET degreeGroups1 == GroupByDegree(ic.g1, 1, <<>>)
                 degreeGroups2 == GroupByDegree(ic.g2, 1, <<>>)
                 log1 == Append(log0, Event("sizeCheck", n))
             IN  IF Len(degreeGroups1) # Len(degreeGroups2)
                 THEN [ret |-> [isIsomorphic |-> "false",
                                reason |-> "Different number of degree groups",
                                invariantCheck |-> invariantCheck,
                                mapping |-> Null],
                       g1 |-> ic.g1, g2 |-> ic.g2, log |-> log1]
                 ELSE LET degrees == MapKeys(degreeGroups1)
                          items == generateMappings(degreeGroups1, degreeGroups2,
                                                    degrees, 0, <<>>)
                          out == OptimizedLoop(ic.g1, ic.g2, options, invariantCheck,
                                               items, 1,
                                               Append(log1, Event("generateMappings", 0)))
                      IN  [ret |-> out.ret, g1 |-> ic.g1, g2 |-> ic.g2, log |-> out.log]

\* ------------------------------------------------------------------------
\* appworld/organization.js: paths and the file system
\* ------------------------------------------------------------------------

\* A path string is kept as the sequence of its segments: 'appworld/libraries'
\* is <<"appworld", "libraries">>, '.' is <<".">>.  The names a caller passes
\* hold no separator and are never '..'.

\* path.normalize on the segments: every '.' segment is dropped
RECURSIVE DropDots(_)
DropDots(p) ==
    IF p = <<>> THEN <<>>
    ELSE IF Head(p) = "." THEN DropDots(Tail(p))
    ELSE <<Head(p)>> \o DropDots(Tail(p))

\* path.join(a, b): the normalized concatenation, '.' when nothing is left
PathJoin(a, b) ==
    LET joined == DropDots(a \o b)
    IN  IF joined = <<>> THEN <<".">> ELSE joined

\* path.resolve(cwd, relativePath), as a path below the working directory
\* (<<>> is the working directory itself)
PathResolve(relativePath) == DropDots(relativePath)

\* fs.mkdir(p, {recursive: true}): p and every missing ancestor
MkdirRecursive(d, p) == d \cup {SubSeq(p, 1, k) : k \in 0..Len(p)}

\* ensureParent(directory): the parent of the working directory exists
ensureParent(d, directory) ==
    IF directory = <<>> THEN d
    ELSE MkdirRecursive(d, SubSeq(directory, 1, Len(directory) - 1))

\* a mkdir that succeeds on a directory that exists, as with recursive: true
Mkdir_Recursive(d, p) == [code |-> "ok", disk |-> MkdirRecursive(d, p)]

\* fs.mkdir(p, {recursive: false}): the error code or "ok", and the disk after
Mkdir(d, p) ==
    IF p \in d THEN [code |-> "EEXIST", disk |-> d]
    ELSE IF p # <<>> /\ SubSeq(p, 1, Len(p) - 1) \notin d
    THEN [code |-> "ENOENT", disk |-> d]
    ELSE [code |-> "ok", disk |-> d \cup {p}]

\* ------------------------------------------------------------------------
\* appworld/organization.js: buildOrganizationBlueprint, listBlueprintPaths
\* ------------------------------------------------------------------------

\* A template object is kept as the sequence of its entries in key order; a
\* null template has none.
Leaf(name) == [name |-> name, template |-> <<>>]

LIBRARY_TEMPLATE ==
    <<Leaf("docs"),
      [name |-> "src", template |-> <<Leaf("api"), Leaf("ui"), Leaf("services")>>],
      [name |-> "tests", template |-> <<Leaf("unit"), Leaf("integration")>>]>>

WORKFLOW_TEMPLATE ==
    <<Leaf("drafts"), Leaf("published"), Leaf("archive"), Leaf("results"),
      Leaf("scorings"), Leaf("outputs"), Leaf("milestones"), Leaf("objectives"),
      Leaf("targets"), Leaf("goals"), Leaf("cost"), Leaf("risk-factors"),
      Leaf("timing"), Leaf("hp"), Leaf("time-value"), Leaf("dok-scoring")>>

NFT_TEMPLATE ==
    <<[name |-> "assets", template |-> <<Leaf("art"), Leaf("previews")>>],
      [name |-> "metadata", template |-> <<Leaf("drafts"), Leaf("published")>>],
      Leaf("drops")>>

RECURSIVE createNode(_, _, _)
createNode(name, template, parentPath) ==
    LET nodePath == IF parentPath # <<>> THEN PathJoin(parentPath, <<name>>) ELSE <<name>>
    IN  [type     |-> "directory",
         name     |-> name,
         path     |-> nodePath,
         children |-> [i \in DOMAIN template |->
                         createNode(template[i].name, template[i].template, nodePath)]]

buildGroup(label, items, template, basePath) ==
    [type     |-> "directory",
     name     |-> label,
     path     |-> PathJoin(basePath, <<label>>),
     children |-> [i \in DOMAIN items |->
                     createNode(items[i], template, PathJoin(basePath, <<label>>))]]

\* buildOrganizationBlueprint(options); options.base is one name
buildOrganizationBlueprint(options) ==
    LET base == <<options.base>>
    IN  [root |-> [type     |-> "directory",
                   name     |-> options.base,
                   path     |-> base,
                   children |-> <<buildGroup("libraries", options.libraries,
                                             LIBRARY_TEMPLATE, base),
                                  buildGroup("workflows", options.workflows,
                                             WORKFLOW_TEMPLATE, base),
                                  buildGroup("nfts", options.nftCollections,
                                             NFT_TEMPLATE, base)>>],
         richFormatter |-> Undefined]

\* the while loop of listBlueprintPaths over its stack (the top is the last
\* element)
RECURSIVE ListLoop(_, _, _)
ListLoop(stack, paths, includeRoot) ==
    IF stack = <<>> THEN paths
    ELSE LET top      == stack[Len(stack)]
             rest     == SubSeq(stack, 1, Len(stack) - 1)
             children == top.node.children
             n        == Len(children)
             paths1   == IF ~top.isRoot \/ includeRoot
                         THEN Append(paths, top.node.path)
                         ELSE paths
             pushed   == [k \in 1..n |-> [node |-> children[n + 1 - k], isRoot |-> FALSE]]
         IN  ListLoop(rest \o pushed, paths1, includeRoot)

listBlueprintPaths(bp, includeRoot) ==
    ListLoop(<<[node |-> bp.root, isRoot |-> TRUE]>>, <<>>, includeRoot)

\* ------------------------------------------------------------------------
\* appworld/common/organization.js: assembleMirroredOrganizationBlueprint
\* ------------------------------------------------------------------------

\* String.prototype.trim on the names in use
Trim(name) ==
    CASE name = " core" -> "core"
      [] name = " "     -> ""
      [] OTHER          -> name

\* Array.from(new Set(value)): the first occurrence of every element
RECURSIVE Dedupe(_)
Dedupe(value) ==
    IF value = <<>> THEN <<>>
    ELSE LET front == Dedupe(SubSeq(value, 1, Len(value) - 1))
             last  == value[Len(value)]
         IN  IF Includes(front, last) THEN front ELSE Append(front, last)

\* Array.prototype.filter(Boolean) on strings: the empty string is dropped
RECURSIVE FilterNonEmpty(_)
FilterNonEmpty(value) ==
    IF value = <<>> THEN <<>>
    ELSE IF Head(value) = "" THEN FilterNonEmpty(Tail(value))
    ELSE <<Head(value)>> \o FilterNonEmpty(Tail(value))

\* normalizeList(value, fallback); a list left out is the empty list
normalizeList(value, fallback) ==
    IF value = <<>> THEN fallback
    ELSE LET unique == Dedupe(value)
         IN  FilterNonEmpty([i \in DOMAIN unique |-> Trim(unique[i])])

\* CATEGORY_BASE_DIRECTORIES, in insertion order
CATEGORY_BASE_DIRECTORIES ==
    <<<<"library", "libraries">>, <<"workflow", "workflows">>, <<"nft", "nfts">>>>

\* path.join(root, path.join(baseDirectory, name)) for an absolute root
createEntry(root, category, name) ==
    [type     |-> "directory",
     category |-> category,
     name     |-> name,
     path     |-> root \o DropDots(<<MapGet(CATEGORY_BASE_DIRECTORIES, category), name>>)]

ensureBaseEntries(root) ==
    [i \in DOMAIN CATEGORY_BASE_DIRECTORIES |->
        [type     |-> "directory",
         category |-> "group",
         name     |-> CATEGORY_BASE_DIRECTORIES[i][2],
         path     |-> root \o <<CATEGORY_BASE_DIRECTORIES[i][2]>>]]

\* the alphabetical position of a segment among the segments in use
SegmentRank(segment) ==
    CASE segment = "appworld"  -> 1
      [] segment = "core"      -> 2
      [] segment = "libraries" -> 3
      [] segment = "nfts"      -> 4
      [] segment = "shared"    -> 5
      [] segment = "workflows" -> 6
      [] OTHER                 -> 0

\* a.localeCompare(b) < 0 for two paths of these segments
RECURSIVE PathBefore(_, _)
PathBefore(a, b) ==
    IF b = <<>> THEN FALSE
    ELSE IF a = <<>> THEN TRUE
    ELSE IF Head(a) = Head(b) THEN PathBefore(Tail(a), Tail(b))
    ELSE SegmentRank(Head(a)) < SegmentRank(Head(b))

\* [...entries].sort((a, b) => a.path.localeCompare(b.path)): a stable sort
RECURSIVE InsertEntry(_, _)
InsertEntry(sorted, entry) ==
    IF sorted = <<>> THEN <<entry>>
    ELSE IF PathBefore(entry.path, Head(sorted).path) THEN <<entry>> \o sorted
    ELSE <<Head(sorted)>> \o InsertEntry(Tail(sorted), entry)

RECURSIVE sortEntryPaths(_)
sortEntryPaths(entries) ==
    IF entries = <<>> THEN <<>>
    ELSE InsertEntry(sortEntryPaths(SubSeq(entries, 1, Len(entries) - 1)),
                     entries[Len(entries)])

\* assembleMirroredOrganizationBlueprint(options) without a template: the
\* root and the entries of the blueprint (materialize reads nothing else)
assembleMirroredOrganizationBlueprint(options) ==
    LET normalizedRoot      == PathResolve(options.root)
        normalizedLibraries == normalizeList(options.libraries, <<"core">>)
        normalizedWorkflows == normalizeList(options.workflows, normalizedLibraries)
        normalizedNfts      == normalizeList(options.nfts, normalizedLibraries)
        blueprintEntries ==
            ensureBaseEntries(normalizedRoot)
            \o [i \in DOMAIN normalizedLibraries |->
                  createEntry(normalizedRoot, "library", normalizedLibraries[i])]
            \o [i \in DOMAIN normalizedWorkflows |->
                  createEntry(normalizedRoot, "workflow", normalizedWorkflows[i])]
            \o [i \in DOMAIN normalizedNfts |->
                  createEntry(normalizedRoot, "nft", normalizedNfts[i])]
    IN  [root |-> normalizedRoot, entries |-> sortEntryPaths(blueprintEntries)]

\* the for loop of materializeBlueprint with dryRun = true, which awaits
\* nothing, from the i-th planned path on
RECURSIVE DryRunLoop(_, _, _, _)
DryRunLoop(planned, i, signal, created) ==
    IF i > Len(planned) \/ signal = "aborted" THEN created
    ELSE DryRunLoop(planned, i + 1, signal, Append(created, planned[i]))

\* ------------------------------------------------------------------------
\* State: the two graphs a caller builds and the call it then makes
\* ------------------------------------------------------------------------

VARIABLES
    g1,       \* the first Graph object
    g2,       \* the second Graph object
    pc,       \* "build" while the caller builds the graphs, "called" after its call
    call,     \* the call made: function name and options
    result,   \* the value the call returned
    log       \* what the call did, in order

\* State of the appworld organization scaffolding (SpecOrg)
VARIABLES
    blueprint, \* the blueprint object the caller built
    disk,      \* the directories that exist, as paths below the working directory
    frame,     \* the materialize call in progress: its arguments and locals
    results    \* the values the completed materialize calls returned, in order

graphVars == <<g1, g2, pc, call, result, log>>
orgVars == <<blueprint, disk, frame, results>>
vars == <<g1, g2, pc, call, result, log, blueprint, disk, frame, results>>

NoCall == [fn |-> "none"]

\* no blueprint built, no call made
OrgIdle ==
    /\ blueprint = Null
    /\ disk = {}
    /\ frame = NoCall
    /\ results = <<>>

Init ==
    /\ \E d \in BOOLEAN : g1 = NewGraph(d)
    /\ \E d \in BOOLEAN : g2 = NewGraph(d)
    /\ pc = "build"
    /\ call = NoCall
    /\ result = Null
    /\ log = <<>>
    /\ OrgIdle

\* The names a caller may pass next: those in use and the next unused one.
Usable(names, g) ==
    {names[i] : i \in {j \in DOMAIN names : j <= Len(g.vertices) + 1}}

AddVertex1(v) ==
    /\ pc = "build"
    /\ v \in Usable(Names1, g1)
    /\ g1' = addVertex(g1, v)
    /\ UNCHANGED <<g2, pc, call, result, log>>
    /\ UNCHANGED orgVars

AddEdge1(limit, u, v) ==
    /\ pc = "build"
    /\ Len(g1.edges) < limit
    /\ u \in Usable(Names1, g1)
    /\ v \in Usable(Names1, addVertex(g1, u))
    /\ g1' = addEdge(g1, u, v)
    /\ UNCHANGED <<g2, pc, call, result, log>>
    /\ UNCHANGED orgVars

AddVertex2(v) ==
    /\ pc = "build"
    /\ v \in Usable(Names2, g2)
    /\ g2' = addVertex(g2, v)
    /\ UNCHANGED <<g1, pc, call, result, log>>
    /\ UNCHANGED orgVars

AddEdge2(limit, u, v) ==
    /\ pc = "build"
    /\ Len(g2.edges) < limit
    /\ u \in Usable(Names2, g2)
    /\ v \in Usable(Names2, addVertex(g2, u))
    /\ g2' = addEdge(g2, u, v)
    /\ UNCHANGED <<g1, pc, call, result, log>>
    /\ UNCHANGED orgVars

CallCheckInvariants ==
    /\ pc = "build"
    /\ LET out == checkInvariants(g1, g2)
       IN  /\ result' = out.ret
           /\ g1' = out.g1
           /\ g2' = out.g2
    /\ call' = [fn |-> "checkInvariants"]
    /\ log' = <<>>
    /\ pc' = "called"
    /\ UNCHANGED orgVars

CallDetectIsomorphism(options) ==
    /\ pc = "build"
    /\ LET out == detectIsomorphism(g1, g2, options)
       IN  /\ result' = out.ret
           /\ g1' = out.g1
           /\ g2' = out.g2
           /\ log' = out.log
    /\ call' = [fn |-> "detectIsomorphism", options |-> options]
    /\ pc' = "called"
    /\ UNCHANGED orgVars

CallDetectIsomorphismOptimized(options) ==
    /\ pc = "build"
    /\ LET out == detectIsomorphismOptimized(g1, g2, options)
       IN  /\ result' = out.ret
           /\ g1' = out.g1
           /\ g2' = out.g2
           /\ log' = out.log
    /\ call' = [fn |-> "detectIsomorphismOptimized", options |-> options]
    /\ pc' = "called"
    /\ UNCHANGED orgVars

\* A caller that builds both graphs with addEdge alone (as the tests and the
\* demo do), with up to MaxEdges edges each, and then makes one call with
\* any options.
Next ==
    \/ \E u, v \in Range(Names1) : AddEdge1(MaxEdges, u, v)
    \/ \E u, v \in Range(Names2) : AddEdge2(MaxEdges, u, v)
    \/ CallCheckInvariants
    \/ \E options \in Options : CallDetectIsomorphism(options)
    \/ \E options \in Options : CallDetectIsomorphismOptimized(options)

Spec == Init /\ [][Next]_vars

\* The same caller with up to MaxEdgesDeep edges per graph, calling a search
\* with the default options.
DefaultOptions == [hasMaxVertices |-> FALSE, maxVertices |-> 0, onProgress |-> "absent"]

NextDeep ==
    \/ \E u, v \in Range(Names1) : AddEdge1(MaxEdgesDeep, u, v)
    \/ \E u, v \in Range(Names2) : AddEdge2(MaxEdgesDeep, u, v)
    \/ CallDetectIsomorphism(DefaultOptions)
    \/ CallDetectIsomorphismOptimized(DefaultOptions)

SpecDeep == Init /\ [][NextDeep]_vars

\* A caller that also declares vertices with addVertex.
NextDeclared ==
    \/ \E v \in Range(Names1) : AddVertex1(v)
    \/ \E u, v \in Range(Names1) : AddEdge1(MaxEdges, u, v)
    \/ \E v \in Range(Names2) : AddVertex2(v)
    \/ \E u, v \in Range(Names2) : AddEdge2(MaxEdges, u, v)
    \/ CallCheckInvariants
    \/ \E options \in Options : CallDetectIsomorphism(options)
    \/ \E options \in Options : CallDetectIsomorphismOptimized(options)

SpecDeclared == Init /\ [][NextDeclared]_vars

\* A caller that declares five vertices on each graph with addVertex, then
\* adds edges taken in order from listed edge lists, and then calls a search
\* with a callback: graphs large enough for a search to reach its 100th
\* candidate.
Names5 == <<"n1", "n2", "n3", "n4", "n5">>

\* a self-loop and two doubled edges: every vertex of degree 2 when undirected
LoopAndPairs ==
    << <<"n1", "n1">>, <<"n2", "n3">>, <<"n2", "n3">>,
       <<"n4", "n5">>, <<"n4", "n5">>, <<"n1", "n2">> >>

\* the same shape on other vertices: the self-loop on the last vertex
PairsAndLoop ==
    << <<"n5", "n5">>, <<"n1", "n4">>, <<"n1", "n4">>,
       <<"n2", "n3">>, <<"n2", "n3">>, <<"n5", "n1">> >>

\* a triangle and a doubled edge: every vertex of degree 2 when undirected
TriangleAndPair ==
    << <<"n1", "n2">>, <<"n2", "n3">>, <<"n3", "n1">>,
       <<"n4", "n5">>, <<"n4", "n5">>, <<"n1", "n4">> >>

EdgeLists1 == {LoopAndPairs}
EdgeLists2 == {PairsAndLoop, TriangleAndPair}

DeclareVertex1 ==
    /\ pc = "build"
    /\ Len(g1.edges) = 0
    /\ Len(g1.vertices) < Len(Names5)
    /\ g1' = addVertex(g1, Names5[Len(g1.vertices) + 1])
    /\ UNCHANGED <<g2, pc, call, result, log>>
    /\ UNCHANGED orgVars

DeclareVertex2 ==
    /\ pc = "build"
    /\ Len(g2.edges) = 0
    /\ Len(g2.vertices) < Len(Names5)
    /\ g2' = addVertex(g2, Names5[Len(g2.vertices) + 1])
    /\ UNCHANGED <<g1, pc, call, result, log>>
    /\ UNCHANGED orgVars

ListedEdge1(list) ==
    /\ pc = "build"
    /\ Len(g1.vertices) = Len(Names5)
    /\ Len(g1.edges) < MaxEdgesListed
    /\ Len(g1.edges) < Len(list)
    /\ LET e == list[Len(g1.edges) + 1]
       IN  g1' = addEdge(g1, e[1], e[2])
    /\ UNCHANGED <<g2, pc, call, result, log>>
    /\ UNCHANGED orgVars

ListedEdge2(list) ==
    /\ pc = "build"
    /\ Len(g2.vertices) = Len(Names5)
    /\ Len(g2.edges) < MaxEdgesListed
    /\ Len(g2.edges) < Len(list)
    /\ LET e == list[Len(g2.edges) + 1]
       IN  g2' = addEdge(g2, e[1], e[2])
    /\ UNCHANGED <<g1, pc, call, result, log>>
    /\ UNCHANGED orgVars

\* default ceiling; a callback that records, or one that raises
ProgressOptions ==
    RaisingOptions
    \cup {[hasMaxVertices |-> FALSE, maxVertices |-> 0, onProgress |-> "records"]}

NextProgress ==
    \/ DeclareVertex1
    \/ DeclareVertex2
    \/ \E list \in EdgeLists1 : ListedEdge1(list)
    \/ \E list \in EdgeLists2 : ListedEdge2(list)
    \/ \E options \in ProgressOptions : CallDetectIsomorphism(options)
    \/ \E options \in ProgressOptions : CallDetectIsomorphismOptimized(options)

SpecProgress == Init /\ [][NextProgress]_vars

\* The same kind of caller with short edge lists on five declared vertices,
\* calling a search with the default options: graphs with a degree group of
\* three vertices and one of two.
ArcsApart ==
    << <<"n3", "n1">>, <<"n2", "n4">>, <<"n4", "n5">> >>

ArcsApartRelabelled ==
    << <<"n2", "n5">>, <<"n3", "n1">>, <<"n5", "n4">> >>

ArcsMeeting ==
    << <<"n2", "n5">>, <<"n3", "n5">>, <<"n1", "n4">> >>

ArcLists1 == {ArcsApart}
ArcLists2 == {ArcsApartRelabelled, ArcsMeeting}

NextArcs ==
    \/ DeclareVertex1
    \/ DeclareVertex2
    \/ \E list \in ArcLists1 : ListedEdge1(list)
    \/ \E list \in ArcLists2 : ListedEdge2(list)
    \/ CallDetectIsomorphism(DefaultOptions)
    \/ CallDetectIsomorphismOptimized(DefaultOptions)

SpecArcs == Init /\ [][NextArcs]_vars

\* ------------------------------------------------------------------------
\* State of SpecGraph: one Graph (g1), the method last called on it (call)
\* and what that call returned (result)
\* ------------------------------------------------------------------------

InitGraph ==
    /\ \E d \in BOOLEAN : g1 = NewGraph(d)
    /\ g2 = NewGraph(FALSE)
    /\ pc = "build"
    /\ call = NoCall
    /\ result = Null
    /\ log = <<>>
    /\ OrgIdle

GraphAddVertex(v) ==
    /\ v \in Usable(Names1, g1)
    /\ g1' = addVertex(g1, v)
    /\ call' = [fn |-> "addVertex", vertex |-> v]
    /\ result' = Undefined
    /\ UNCHANGED <<g2, pc, log>>
    /\ UNCHANGED orgVars

GraphAddEdge(u, v) ==
    /\ Len(g1.edges) < MaxEdgesGraph
    /\ u \in Usable(Names1, g1)
    /\ v \in Usable(Names1, addVertex(g1, u))
    /\ g1' = addEdge(g1, u, v)
    /\ call' = [fn |-> "addEdge", v1 |-> u, v2 |-> v]
    /\ result' = Undefined
    /\ UNCHANGED <<g2, pc, log>>
    /\ UNCHANGED orgVars

\* The queries read the Map and the Set and write nothing.
GraphGetNeighbors(x) ==
    /\ LET out == GetNeighborsOutcome(g1, x)
       IN  /\ result' = out.ret
           /\ g1' = out.this
    /\ call' = [fn |-> "getNeighbors", vertex |-> x]
    /\ UNCHANGED <<g2, pc, log>>
    /\ UNCHANGED orgVars

GraphGetDegree(x) ==
    /\ result' = getDegree(g1, x)
    /\ call' = [fn |-> "getDegree", vertex |-> x]
    /\ UNCHANGED <<g1, g2, pc, log>>
    /\ UNCHANGED orgVars

GraphAreAdjacent(x, y) ==
    /\ result' = areAdjacent(g1, x, y)
    /\ call' = [fn |-> "areAdjacent", v1 |-> x, v2 |-> y]
    /\ UNCHANGED <<g1, g2, pc, log>>
    /\ UNCHANGED orgVars

GraphGetDegreeSequence ==
    /\ LET out == getDegreeSequence(g1)
       IN  /\ result' = out.ret
           /\ g1' = out.this
    /\ call' = [fn |-> "getDegreeSequence"]
    /\ UNCHANGED <<g2, pc, log>>
    /\ UNCHANGED orgVars

GraphGetVertexCount ==
    /\ result' = getVertexCount(g1)
    /\ call' = [fn |-> "getVertexCount"]
    /\ UNCHANGED <<g1, g2, pc, log>>
    /\ UNCHANGED orgVars

NextGraph ==
    \/ \E v \in Range(Names1) : GraphAddVertex(v)
    \/ \E u, v \in Range(Names1) : GraphAddEdge(u, v)
    \/ \E x \in Range(Names1) : GraphGetNeighbors(x)
    \/ \E x \in Range(Names1) : GraphGetDegree(x)
    \/ \E x, y \in Range(Names1) : GraphAreAdjacent(x, y)
    \/ GraphGetDegreeSequence
    \/ GraphGetVertexCount

SpecGraph == InitGraph /\ [][NextGraph]_vars

\* ------------------------------------------------------------------------
\* State of SpecOrg: a blueprint, the disk, and the materialize calls a
\* caller makes one after the other in an initially empty working directory
\* ------------------------------------------------------------------------

\* all sequences over S of length up to n
SeqsUpTo(S, n) == UNION {[1..k -> S] : k \in 0..n}

\* what a caller passes to buildOrganizationBlueprint (workflows and
\* nftCollections left out)
BlueprintOptions ==
    [base : {"appworld", "."},
     libraries : SeqsUpTo({"core", "."}, MaxItems),
     workflows : {<<>>},
     nftCollections : {<<>>}]

\* what a caller passes to assembleMirroredOrganizationBlueprint (workflows,
\* nfts and template left out)
MirroredOptions ==
    [root : {<<".">>, <<"appworld">>},
     libraries : SeqsUpTo({"core", " core", "shared"}, MaxItems),
     workflows : {<<>>},
     nfts : {<<>>}]

IsMirrored(bp) == "entries" \in DOMAIN bp

InitOrg ==
    /\ g1 = NewGraph(FALSE)
    /\ g2 = NewGraph(FALSE)
    /\ pc = "build"
    /\ call = NoCall
    /\ result = Null
    /\ log = <<>>
    /\ \/ \E o \in BlueprintOptions : blueprint = buildOrganizationBlueprint(o)
       \/ \E o \in MirroredOptions : blueprint = assembleMirroredOrganizationBlueprint(o)
    /\ disk = {<<>>}
    /\ frame = NoCall
    /\ results = <<>>

\* materializeBlueprint that enters its mkdir loop whatever dryRun is
CallMaterializeBlueprint_IgnoresDryRun(dryRun, signal) ==
    /\ frame = NoCall
    /\ Len(results) < MaxRuns
    /\ ~IsMirrored(blueprint)
    /\ frame' = [fn |-> "materializeBlueprint", dryRun |-> dryRun,
                 signal |-> signal, planned |-> listBlueprintPaths(blueprint, TRUE),
                 index |-> 1, created |-> <<>>, skipped |-> <<>>]
    /\ UNCHANGED <<blueprint, disk, results>>
    /\ UNCHANGED graphVars

\* materializeBlueprint(blueprint, {cwd, dryRun, signal}) up to its first
\* await: with dryRun the whole loop runs and the call returns; otherwise
\* the loop is entered.  signal is "absent", "pending" or "aborted".
CallMaterializeBlueprint(dryRun, signal) ==
    /\ frame = NoCall
    /\ Len(results) < MaxRuns
    /\ ~IsMirrored(blueprint)
    /\ LET planned == listBlueprintPaths(blueprint, TRUE)
           callee  == [fn |-> "materializeBlueprint", dryRun |-> dryRun, signal |-> signal]
       IN  IF dryRun
           THEN /\ results' = Append(results,
                                [call |-> callee,
                                 ret  |-> [planned |-> planned,
                                           created |-> DryRunLoop(planned, 1, signal, <<>>),
                                           skipped |-> <<>>,
                                           dryRun  |-> dryRun]])
                /\ frame' = NoCall
           ELSE /\ frame' = [fn |-> "materializeBlueprint", dryRun |-> dryRun,
                             signal |-> signal, planned |-> planned, index |-> 1,
                             created |-> <<>>, skipped |-> <<>>]
                /\ results' = results
    /\ UNCHANGED <<blueprint, disk>>
    /\ UNCHANGED graphVars

\* the owner of the AbortController aborts while the call is in progress
Abort ==
    /\ frame.fn = "materializeBlueprint"
    /\ frame.signal = "pending"
    /\ frame' = [frame EXCEPT !.signal = "aborted"]
    /\ UNCHANGED <<blueprint, disk, results>>
    /\ UNCHANGED graphVars

\* one iteration of the loop of materializeBlueprint with dryRun = false
MaterializeStep ==
    /\ frame.fn = "materializeBlueprint"
    /\ frame.index <= Len(frame.planned)
    /\ frame.signal # "aborted"
    /\ LET relativePath == frame.planned[frame.index]
           absolutePath == PathResolve(relativePath)
           made == Mkdir(ensureParent(disk, absolutePath), absolutePath)
       IN  /\ disk' = made.disk
           /\ IF made.code = "ok"
              THEN /\ frame' = [frame EXCEPT !.created = Append(@, relativePath),
                                             !.index = @ + 1]
                   /\ results' = results
              ELSE IF made.code = "EEXIST"
              THEN /\ frame' = [frame EXCEPT !.skipped = Append(@, relativePath),
                                             !.index = @ + 1]
                   /\ results' = results
              ELSE /\ frame' = NoCall
                   /\ results' = Append(results,
                                   [call  |-> [fn |-> frame.fn, dryRun |-> frame.dryRun,
                                               signal |-> frame.signal],
                                    threw |-> made.code])
    /\ UNCHANGED blueprint
    /\ UNCHANGED graphVars

\* the loop of materializeBlueprint is left (end of planned, or break on an
\* aborted signal) and the call returns
MaterializeReturn ==
    /\ frame.fn = "materializeBlueprint"
    /\ frame.index > Len(frame.planned) \/ frame.signal = "aborted"
    /\ results' = Append(results,
                    [call |-> [fn |-> frame.fn, dryRun |-> frame.dryRun,
                               signal |-> frame.signal],
                     ret  |-> [planned |-> frame.planned,
                               created |-> frame.created,
                               skipped |-> frame.skipped,
                               dryRun  |-> frame.dryRun]])
    /\ frame' = NoCall
    /\ UNCHANGED <<blueprint, disk>>
    /\ UNCHANGED graphVars

\* materializeOrganizationBlueprint(blueprint, {dryRun}) with the default
\* fsPromises, up to its first await
CallMaterializeOrganizationBlueprint(dryRun) ==
    /\ frame = NoCall
    /\ Len(results) < MaxRuns
    /\ IsMirrored(blueprint)
    /\ frame' = [fn |-> "materializeOrganizationBlueprint", dryRun |-> dryRun,
                 index |-> 1, created |-> <<>>, skipped |-> <<>>]
    /\ UNCHANGED <<blueprint, disk, results>>
    /\ UNCHANGED graphVars

\* one iteration of the loop of materializeOrganizationBlueprint: stat, and
\* mkdir unless the directory exists or the run is dry
OrganizationStep ==
    /\ frame.fn = "materializeOrganizationBlueprint"
    /\ frame.index <= Len(blueprint.entries)
    /\ LET entry  == blueprint.entries[frame.index]
           exists == entry.path \in disk
       IN  IF exists
           THEN /\ frame' = [frame EXCEPT !.skipped = Append(@, entry.path),
                                          !.index = @ + 1]
                /\ disk' = disk
           ELSE /\ disk' = IF ~frame.dryRun THEN MkdirRecursive(disk, entry.path) ELSE disk
                /\ frame' = [frame EXCEPT !.created = Append(@, entry.path),
                                          !.index = @ + 1]
    /\ UNCHANGED <<blueprint, results>>
    /\ UNCHANGED graphVars

OrganizationReturn ==
    /\ frame.fn = "materializeOrganizationBlueprint"
    /\ frame.index > Len(blueprint.entries)
    /\ results' = Append(results,
                    [call |-> [fn |-> frame.fn, dryRun |-> frame.dryRun],
                     ret  |-> [dryRun  |-> frame.dryRun,
                               created |-> frame.created,
                               skipped |-> frame.skipped]])
    /\ frame' = NoCall
    /\ UNCHANGED <<blueprint, disk>>
    /\ UNCHANGED graphVars

NextOrg ==
    \/ \E dryRun \in BOOLEAN, signal \in {"absent", "pending", "aborted"} :
           CallMaterializeBlueprint(dryRun, signal)
    \/ Abort
    \/ MaterializeStep
    \/ MaterializeReturn
    \/ \E dryRun \in BOOLEAN : CallMaterializeOrganizationBlueprint(dryRun)
    \/ OrganizationStep
    \/ OrganizationReturn

SpecOrg == InitOrg /\ [][NextOrg]_vars

\* ------------------------------------------------------------------------
\* Properties
\* ------------------------------------------------------------------------

Searches == {"detectIsomorphism", "detectIsomorphismOptimized"}

Returned(fn) == pc = "called" /\ call.fn = fn

\* The ceiling of a search call, as documented: the maxVertices option, or
\* 10 for detectIsomorphism and 12 for detectIsomorphismOptimized.
CeilingOf(fn, options) ==
    IF options.hasMaxVertices THEN options.maxVertices
    ELSE IF fn = "detectIsomorphism" THEN 10 ELSE 12

V1 == Range(g1.vertices)
V2 == Range(g2.vertices)

\* f is a bijection from the vertices of ga onto those of gb
IsBijection(f, ga, gb) ==
    /\ \A v \in Range(ga.vertices) : f[v] \in Range(gb.vertices)
    /\ \A u, v \in Range(ga.vertices) : u # v => f[u] # f[v]
    /\ \A w \in Range(gb.vertices) : \E v \in Range(ga.vertices) : f[v] = w

\* the adjacency-preservation predicate, over all ordered pairs
Preserves(f, ga, gb) ==
    \A u, v \in Range(ga.vertices) :
        areAdjacent(ga, u, v) = areAdjacent(gb, f[u], f[v])

\* some bijection from the vertices of ga onto those of gb preserves adjacency
ExistsIsomorphism(ga, gb) ==
    \E f \in [Range(ga.vertices) -> Range(gb.vertices)] :
        IsBijection(f, ga, gb) /\ Preserves(f, ga, gb)

\* the call enumerated: it generated permutations, built or validated a
\* candidate, or called onProgress
Enumerated ==
    \E i \in DOMAIN log :
        log[i].kind \in {"permute", "generateMappings", "candidate", "validate", "progress"}

RECURSIVE Factorial(_)
Factorial(n) == IF n <= 1 THEN 1 ELSE n * Factorial(n - 1)

\* C1: when a search returns isIsomorphic = true, the returned mapping,
\* read as mapping[v], is defined on every vertex of the first graph, is
\* injective, covers every vertex of the second graph and preserves
\* adjacency for every ordered pair.
C1_ReturnedMappingValid ==
    (/\ pc = "called"
     /\ call.fn \in Searches
     /\ "isIsomorphic" \in DOMAIN result
     /\ result.isIsomorphic = "true")
    => LET f == [v \in V1 |-> ObjectGet(result.mapping, v)]
       IN  IsBijection(f, g1, g2) /\ Preserves(f, g1, g2)


\* C2: within both ceilings, detectIsomorphismOptimized returns the verdict
\* (isIsomorphic) that detectIsomorphism returns for the same graphs.
C2_SameVerdict ==
    (/\ Returned("detectIsomorphismOptimized")
     /\ getVertexCount(g1) <= CeilingOf("detectIsomorphism", call.options)
     /\ getVertexCount(g1) <= CeilingOf("detectIsomorphismOptimized", call.options))
    => /\ "isIsomorphic" \in DOMAIN result
       /\ result.isIsomorphic = detectIsomorphism(g1, g2, call.options).ret.isIsomorphic


\* C3: when checkInvariants(g1, g2).isomorphismPossible is false, a search
\* returns isIsomorphic = false with reason 'Invariants do not match' and
\* mapping null, reports no permutationsChecked, and has generated no
\* permutation, validated no candidate and never called onProgress.
C3_InvariantSoundness ==
    (/\ pc = "called"
     /\ call.fn \in Searches
     /\ ~checkInvariants(g1, g2).ret.isomorphismPossible)
    => /\ "isIsomorphic" \in DOMAIN result
       /\ result.isIsomorphic = "false"
       /\ result.reason = "Invariants do not match"
       /\ result.mapping = Null
       /\ "permutationsChecked" \notin DOMAIN result
       /\ ~Enumerated

\* a search given an onProgress callback returned on a pair of three-vertex
\* graphs with equal edge counts and different degree sequences
C3_Witness ==
    /\ pc = "called"
    /\ call.fn = "detectIsomorphismOptimized"
    /\ call.options.onProgress = "records"
    /\ getVertexCount(g1) = 3
    /\ result.invariantCheck.checks.vertexCount
    /\ result.invariantCheck.checks.edgeCount
    /\ ~result.invariantCheck.checks.degreeSequence
    /\ result.reason = "Invariants do not match"

\* C4 as claimed: whatever the second graph, a search whose first graph has
\* more vertices than the ceiling returns isIsomorphic = null and does not
\* enumerate.
C4_CeilingAnySecondGraph ==
    (/\ pc = "called"
     /\ call.fn \in Searches
     /\ getVertexCount(g1) > CeilingOf(call.fn, call.options))
    => /\ "isIsomorphic" \in DOMAIN result
       /\ result.isIsomorphic = "null"
       /\ ~Enumerated

\* C4 amended: when the pair passes checkInvariants, a search whose first
\* graph has more vertices than the ceiling returns isIsomorphic = null
\* (never false) with mapping null and does not enumerate; when the pair
\* fails checkInvariants the search returns isIsomorphic = false without
\* enumerating, whatever the vertex count.
C4_CeilingEnforced ==
    (/\ pc = "called"
     /\ call.fn \in Searches
     /\ getVertexCount(g1) > CeilingOf(call.fn, call.options))
    => /\ "isIsomorphic" \in DOMAIN result
       /\ result.isIsomorphic =
            (IF checkInvariants(g1, g2).ret.isomorphismPossible THEN "null" ELSE "false")
       /\ result.mapping = Null
       /\ ~Enumerated

\* a search returned on a pair that passes the invariants and whose vertex
\* count is one above the ceiling
C4_Witness ==
    /\ pc = "called"
    /\ call.fn = "detectIsomorphism"
    /\ call.options.hasMaxVertices
    /\ getVertexCount(g1) = call.options.maxVertices + 1
    /\ result.invariantCheck.isomorphismPossible
    /\ result.isIsomorphic = "null"

\* C5: for two graphs both directed or both undirected, if some bijection
\* between the vertex sets preserves adjacency, then checkInvariants reports
\* isomorphismPossible = true.
C5_InvariantsNecessary ==
    (/\ pc = "called"
     /\ call.fn = "checkInvariants"
     /\ g1.isDirected = g2.isDirected
     /\ ExistsIsomorphism(g1, g2))
    => result.isomorphismPossible

\* C6: on a pair that passes checkInvariants and is within the ceiling,
\* detectIsomorphism returns isIsomorphic = true if some bijection preserves
\* adjacency, and otherwise isIsomorphic = false with the reason 'No valid
\* mapping found after checking all permutations'.
C6_BruteForceDecides ==
    (/\ pc = "called"
     /\ call.fn = "detectIsomorphism"
     /\ checkInvariants(g1, g2).ret.isomorphismPossible
     /\ getVertexCount(g1) <= CeilingOf(call.fn, call.options))
    => /\ "isIsomorphic" \in DOMAIN result
       /\ IF ExistsIsomorphism(g1, g2)
          THEN result.isIsomorphic = "true"
          ELSE /\ result.isIsomorphic = "false"
               /\ result.reason = "No valid mapping found after checking all permutations"

\* detectIsomorphism exhausted the permutations of a three-vertex pair that
\* passes the invariants
C6_Witness ==
    /\ pc = "called"
    /\ call.fn = "detectIsomorphism"
    /\ getVertexCount(g1) = 3
    /\ result.invariantCheck.isomorphismPossible
    /\ result.isIsomorphic = "false"
    /\ result.permutationsChecked = 6
    /\ ~ExistsIsomorphism(g1, g2)

\* C7: detectIsomorphism(g1, g2) and detectIsomorphism(g2, g1) with the same
\* options return the same isIsomorphic.
C7_Symmetry ==
    (pc = "called" /\ call.fn = "detectIsomorphism")
    => /\ "isIsomorphic" \in DOMAIN result
       /\ result.isIsomorphic = detectIsomorphism(g2, g1, call.options).ret.isIsomorphic

\* detectIsomorphism found a mapping between two graphs with an edge whose
\* vertices are inserted in different orders
C7_Witness ==
    /\ pc = "called"
    /\ call.fn = "detectIsomorphism"
    /\ result.isIsomorphic = "true"
    /\ result.permutationsChecked > 1
    /\ Len(g1.edges) > 0

\* the graph f(g): g's addVertex / addEdge calls replayed with every vertex v
\* renamed f[v]
Renamed(g, f) ==
    [isDirected    |-> g.isDirected,
     vertices      |-> [i \in DOMAIN g.vertices |-> f[g.vertices[i]]],
     adjacencyList |-> [w \in {f[v] : v \in Range(g.vertices)} |->
                          LET v == CHOOSE x \in Range(g.vertices) : f[x] = w
                          IN  [i \in DOMAIN g.adjacencyList[v] |-> f[g.adjacencyList[v][i]]]],
     edges         |-> [i \in DOMAIN g.edges |-> <<f[g.edges[i][1]], f[g.edges[i][2]]>>]]

IsRenaming(ga, gb) ==
    \E f \in [Range(ga.vertices) -> Range(gb.vertices)] :
        /\ \A u, v \in Range(ga.vertices) : u # v => f[u] # f[v]
        /\ gb = Renamed(ga, f)

\* C8: when the second graph is the first with its vertices renamed
\* injectively and the vertex count is within the ceiling, both searches
\* return isIsomorphic = true with 1 <= permutationsChecked <= V!.
C8_RelabellingDetected ==
    (/\ pc = "called"
     /\ call.fn \in Searches
     /\ getVertexCount(g1) <= CeilingOf(call.fn, call.options)
     /\ IsRenaming(g1, g2))
    => /\ "isIsomorphic" \in DOMAIN result
       /\ result.isIsomorphic = "true"
       /\ result.permutationsChecked >= 1
       /\ result.permutationsChecked <= Factorial(getVertexCount(g1))

\* detectIsomorphismOptimized returned on a three-vertex graph with two edges
\* and its renaming
C8_Witness ==
    /\ pc = "called"
    /\ call.fn = "detectIsomorphismOptimized"
    /\ getVertexCount(g1) = 3
    /\ Len(g1.edges) = 2
    /\ IsRenaming(g1, g2)
    /\ result.isIsomorphic = "true"

\* C10: a call of checkInvariants, detectIsomorphism or
\* detectIsomorphismOptimized leaves both graphs as they were: vertex order,
\* neighbor lists, edges and the directed flag.
C10_NoInputMutation ==
    [][pc' = "called" => (g1' = g1 /\ g2' = g2)]_vars

\* a search returned after enumeration on graphs whose degrees are not in
\* descending order of insertion
C10_Witness ==
    /\ pc = "called"
    /\ call.fn = "detectIsomorphism"
    /\ result.isIsomorphic = "true"
    /\ getVertexCount(g1) = 3
    /\ DegreesOf(g1) # getDegreeSequence(g1).ret
    /\ DegreesOf(g2) # getDegreeSequence(g2).ret

\* C11: a search called without onProgress returns a result object, never an
\* exception: its isIsomorphic is true, false or null, it carries the
\* invariantCheck that checkInvariants returns for the pair, and its mapping
\* is non-null exactly when isIsomorphic is true.
C11_OutcomesAreValues ==
    (/\ pc = "called"
     /\ call.fn \in Searches
     /\ call.options.onProgress = "absent")
    => /\ "threw" \notin DOMAIN result
       /\ {"isIsomorphic", "invariantCheck", "mapping"} \subseteq DOMAIN result
       /\ result.isIsomorphic \in {"true", "false", "null"}
       /\ result.invariantCheck = checkInvariants(g1, g2).ret
       /\ (result.mapping # Null) <=> (result.isIsomorphic = "true")

\* detectIsomorphismOptimized, called without onProgress, exhausted the
\* mappings of a three-vertex pair with two degree groups
C11_Witness ==
    /\ pc = "called"
    /\ call.fn = "detectIsomorphismOptimized"
    /\ call.options.onProgress = "absent"
    /\ getVertexCount(g1) = 3
    /\ Len(GroupByDegree(g1, 1, <<>>)) = 2
    /\ result.isIsomorphic = "false"
    /\ result.reason = "No valid mapping found"
    /\ result.mapping = Null

\* the number of vertices of g whose neighbor list has length d
CountOfDegree(g, d) ==
    Cardinality({i \in DOMAIN g.vertices : Len(g.adjacencyList[g.vertices[i]]) = d})

\* the two graphs have the same multiset of degrees, that is, degree
\* sequences that are element-wise equal once both are sorted descending
SameDegreeMultiset(ga, gb) ==
    \A d \in 0..(2 * (Len(ga.edges) + Len(gb.edges))) :
        CountOfDegree(ga, d) = CountOfDegree(gb, d)

\* C12: each entry of checkInvariants(g1, g2).checks reports its own
\* comparison (vertex counts, edge counts, degree sequences sorted
\* descending), and isomorphismPossible is true iff all three hold.
C12_ChecksExact ==
    Returned("checkInvariants")
    => /\ result.checks.vertexCount = (Len(g1.vertices) = Len(g2.vertices))
       /\ result.checks.edgeCount = (Len(g1.edges) = Len(g2.edges))
       /\ result.checks.degreeSequence = SameDegreeMultiset(g1, g2)
       /\ result.isomorphismPossible =
            (/\ Len(g1.vertices) = Len(g2.vertices)
             /\ Len(g1.edges) = Len(g2.edges)
             /\ SameDegreeMultiset(g1, g2))

\* checkInvariants returned with the degree sequence as the one failed
\* sub-check, on a first graph whose degrees are not in descending order
C12_Witness ==
    /\ Returned("checkInvariants")
    /\ result.checks.vertexCount
    /\ result.checks.edgeCount
    /\ ~result.checks.degreeSequence
    /\ ~result.isomorphismPossible
    /\ DegreesOf(g1) # result.details.g1.degrees

\* C13: in a Graph built by addVertex and addEdge calls, every key of
\* adjacencyList, every neighbor in a neighbor list and every endpoint of an
\* edge is a member of vertices, and every member of vertices has a neighbor
\* list in adjacencyList.
C13_GraphStructure ==
    /\ \A k \in DOMAIN g1.adjacencyList :
         /\ k \in Range(g1.vertices)
         /\ \A i \in DOMAIN g1.adjacencyList[k] :
              g1.adjacencyList[k][i] \in Range(g1.vertices)
    /\ \A i \in DOMAIN g1.edges :
         /\ g1.edges[i][1] \in Range(g1.vertices)
         /\ g1.edges[i][2] \in Range(g1.vertices)
    /\ \A v \in Range(g1.vertices) : v \in DOMAIN g1.adjacencyList

\* a graph of three vertices, one of them declared by addVertex alone, with
\* two or more edges
C13_Witness ==
    /\ Len(g1.vertices) = 3
    /\ Len(g1.edges) >= 2
    /\ \E v \in Range(g1.vertices) :
         /\ g1.adjacencyList[v] = <<>>
         /\ \A i \in DOMAIN g1.edges : g1.edges[i][1] # v /\ g1.edges[i][2] # v

\* the number of occurrences of x in the sequence s
Occurrences(s, x) == Cardinality({i \in DOMAIN s : s[i] = x})

\* the neighbor list of w in g, empty when w has none
ListOf(g, w) == IF w \in DOMAIN g.adjacencyList THEN g.adjacencyList[w] ELSE <<>>

\* C14: on an undirected Graph areAdjacent(u, v) = areAdjacent(v, u) for all
\* u, v, and for u # v the occurrences of v in u's neighbor list are as many
\* as those of u in v's; on a directed Graph a call addEdge(u, v) appends v
\* to u's neighbor list and changes no other neighbor list.
C14_UndirectedSymmetry ==
    /\ [](~g1.isDirected =>
            \A u, v \in Range(Names1) :
                /\ areAdjacent(g1, u, v) = areAdjacent(g1, v, u)
                /\ u # v => Occurrences(ListOf(g1, u), v) = Occurrences(ListOf(g1, v), u))
    /\ [][(call'.fn = "addEdge" /\ g1.isDirected) =>
            \A w \in Range(Names1) :
                ListOf(g1', w) = IF w = call'.v1
                                 THEN Append(ListOf(g1, w), call'.v2)
                                 ELSE ListOf(g1, w)]_vars

\* an undirected graph in which the last addEdge call repeated an edge
\* between two different vertices
C14_Witness ==
    /\ ~g1.isDirected
    /\ call.fn = "addEdge"
    /\ call.v1 # call.v2
    /\ Occurrences(g1.adjacencyList[call.v1], call.v2) = 2
    /\ Occurrences(g1.adjacencyList[call.v2], call.v1) = 2

\* C15: a call addVertex(id) on a Graph that already contains id returns
\* normally and leaves the Graph as it was: neighbor lists, vertex order,
\* edges and vertex count.
C15_AddVertexIdempotent ==
    [][(call'.fn = "addVertex" /\ call'.vertex \in Range(g1.vertices))
         => (g1' = g1 /\ result' = Undefined)]_vars

\* addVertex was called on a vertex that addEdge had added and that has
\* neighbors
C15_Witness ==
    /\ call.fn = "addVertex"
    /\ call.vertex \in Range(g1.vertices)
    /\ Len(g1.adjacencyList[call.vertex]) >= 2
    /\ g1.vertices[1] # call.vertex

\* C16: for a vertex x that is not in the Graph, getNeighbors(x) returns an
\* empty array, getDegree(x) returns 0, areAdjacent(x, y) and
\* areAdjacent(y, x) return false for every y, and the call leaves the
\* Graph (vertices and adjacencyList included) as it was.
C16_QueriesTotalOnUnknown ==
    [][/\ (call'.fn = "getNeighbors" /\ call'.vertex \notin Range(g1.vertices))
            => (result' = <<>> /\ g1' = g1)
       /\ (call'.fn = "getDegree" /\ call'.vertex \notin Range(g1.vertices))
            => (result' = 0 /\ g1' = g1)
       /\ (/\ call'.fn = "areAdjacent"
           /\ (call'.v1 \notin Range(g1.vertices) \/ call'.v2 \notin Range(g1.vertices)))
            => (result' = FALSE /\ g1' = g1)]_vars

\* getNeighbors was called with a vertex unknown to a Graph that has edges
C16_Witness ==
    /\ call.fn = "getNeighbors"
    /\ call.vertex \notin Range(g1.vertices)
    /\ Len(g1.edges) >= 2
    /\ result = <<>>

\* C17 as claimed: on an undirected Graph every call addEdge(u, v) raises
\* getDegree(u) by exactly 1 and getDegree(v) by exactly 1 and leaves every
\* other degree as it was.
C17_EdgeAddsOneEach ==
    [][(call'.fn = "addEdge" /\ ~g1.isDirected) =>
         \A w \in Range(Names1) :
             getDegree(g1', w) =
                 IF w \in {call'.v1, call'.v2}
                 THEN getDegree(g1, w) + 1
                 ELSE getDegree(g1, w)]_vars

\* C17 amended: on an undirected Graph a call addEdge(u, v) with u # v
\* raises getDegree(u) and getDegree(v) by exactly 1 each, a call
\* addEdge(u, u) raises getDegree(u) by exactly 2, and every other degree is
\* as it was.
C17_EdgeDegreeContribution ==
    [][(call'.fn = "addEdge" /\ ~g1.isDirected) =>
         \A w \in Range(Names1) :
             getDegree(g1', w) =
                 getDegree(g1, w)
                 + (IF w = call'.v1 THEN 1 ELSE 0)
                 + (IF w = call'.v2 THEN 1 ELSE 0)]_vars

\* on an undirected Graph the last addEdge call added a self-loop to a
\* vertex that had an edge to another vertex
C17_Witness ==
    /\ ~g1.isDirected
    /\ call.fn = "addEdge"
    /\ call.v1 = call.v2
    /\ Len(g1.vertices) >= 2
    /\ g1.edges[Len(g1.edges)] = <<call.v1, call.v1>>
    /\ Occurrences(g1.adjacencyList[call.v1], call.v1) = 2
    /\ getDegree(g1, call.v1) = 3

\* the graph of the degree sequence test: edges A-B, B-C, C-A, A-D
ExampleGraph ==
    addEdge(addEdge(addEdge(addEdge(NewGraph(FALSE), "sA", "sB"),
                            "sB", "sC"), "sC", "sA"), "sA", "sD")

\* C18: getDegreeSequence() returns an array of length getVertexCount(),
\* in non-increasing order, in which every degree occurs as often as there
\* are vertices of that degree; for edges A-B, B-C, C-A, A-D it is
\* [3, 2, 2, 1].
C18_DegreeSequenceSorted ==
    /\ call.fn = "getDegreeSequence" =>
         /\ Len(result) = Len(g1.vertices)
         /\ \A i, j \in DOMAIN result : i < j => result[i] >= result[j]
         /\ \A d \in 0..(2 * Len(g1.edges)) :
              Occurrences(result, d) = CountOfDegree(g1, d)
         /\ \A i \in DOMAIN result : result[i] \in 0..(2 * Len(g1.edges))
    /\ getDegreeSequence(ExampleGraph).ret = <<3, 2, 2, 1>>

\* getDegreeSequence was called on a three-vertex Graph whose degrees are
\* not in descending order of insertion
C18_Witness ==
    /\ call.fn = "getDegreeSequence"
    /\ Len(result) = 3
    /\ result[1] > result[3]
    /\ DegreesOf(g1) # result

\* the k-th completed call was materializeBlueprint with dryRun = false
RealRun(k) ==
    /\ Len(results) >= k
    /\ results[k].call.fn = "materializeBlueprint"
    /\ ~results[k].call.dryRun

\* every planned path of a returned result is in exactly one of created and
\* skipped
InExactlyOne(ret) ==
    \A p \in Range(ret.planned) :
        (p \in Range(ret.created)) # (p \in Range(ret.skipped))

\* the planned paths name pairwise different directories, none of them the
\* working directory
DistinctDirectories(planned) ==
    /\ \A i, j \in DOMAIN planned :
         i # j => PathResolve(planned[i]) # PathResolve(planned[j])
    /\ \A i \in DOMAIN planned : PathResolve(planned[i]) # <<>>

DryRunStep ==
    \/ "dryRun" \in DOMAIN frame /\ frame.dryRun
    \/ "dryRun" \in DOMAIN frame' /\ frame'.dryRun
    \/ /\ Len(results') > Len(results)
       /\ results'[Len(results')].call.dryRun

\* the k-th completed call was materializeBlueprint with dryRun = true
DryRun(k) ==
    /\ k \in DOMAIN results
    /\ results[k].call.fn = "materializeBlueprint"
    /\ results[k].call.dryRun

\* C20 as claimed: every materializeBlueprint call with dryRun = true
\* returns created = listBlueprintPaths(blueprint), dryRun = true and an
\* empty skipped; no step of a materializeBlueprint or
\* materializeOrganizationBlueprint call with dryRun = true changes the set
\* of directories.
C20_DryRunNoEffect ==
    /\ [](\A k \in DOMAIN results : DryRun(k) =>
            /\ "ret" \in DOMAIN results[k]
            /\ results[k].ret.created = listBlueprintPaths(blueprint, TRUE)
            /\ results[k].ret.dryRun = TRUE
            /\ results[k].ret.skipped = <<>>)
    /\ [][DryRunStep => disk' = disk]_vars

\* C20 amended: a materializeBlueprint call with dryRun = true returns
\* dryRun = true, an empty skipped, and created = listBlueprintPaths(blueprint)
\* unless its signal is aborted, in which case created is empty; no step of
\* a materializeBlueprint or materializeOrganizationBlueprint call with
\* dryRun = true changes the set of directories.
C20_DryRunUnlessAborted ==
    /\ [](\A k \in DOMAIN results : DryRun(k) =>
            /\ "ret" \in DOMAIN results[k]
            /\ results[k].ret.created =
                 (IF results[k].call.signal = "aborted"
                  THEN <<>>
                  ELSE listBlueprintPaths(blueprint, TRUE))
            /\ results[k].ret.dryRun = TRUE
            /\ results[k].ret.skipped = <<>>)
    /\ [][DryRunStep => disk' = disk]_vars

\* a dry run of materializeBlueprint on a blueprint with a library and a
\* dry run of it with an aborted signal have returned, and no planned
\* directory exists
C20_Witness ==
    /\ DryRun(1) /\ results[1].call.signal = "pending"
    /\ DryRun(2) /\ results[2].call.signal = "aborted"
    /\ Len(results[1].ret.created) > 4
    /\ results[1].ret.created = results[1].ret.planned
    /\ results[2].ret.created = <<>>
    /\ disk = {<<>>}

\* a dry run of materializeOrganizationBlueprint has returned and none of
\* the directories it reports as created exists
C20_WitnessOrganization ==
    /\ Len(results) >= 1
    /\ results[1].call.fn = "materializeOrganizationBlueprint"
    /\ results[1].call.dryRun
    /\ Len(results[1].ret.created) >= 6
    /\ disk = {<<>>}

\* the position of vertex x in the array arr (vertices are distinct)
IndexOf(arr, x) == CHOOSE i \in DOMAIN arr : arr[i] = x

\* the k-th permutation of the second graph's vertices, in the order permute
\* generates them, read as a mapping of the first graph's vertices
\* (vertices1[i] -> perm[i]), preserves adjacency
ValidAt(k) ==
    LET perm == permute(g2.vertices)[k]
        f == [v \in V1 |-> perm[IndexOf(g1.vertices, v)]]
    IN  Preserves(f, g1, g2)

ExhaustionReason == "No valid mapping found after checking all permutations"

\* C21: when detectIsomorphism returns isIsomorphic = true, permutationsChecked
\* is the position, in the order permute(vertices of the second graph)
\* generates them, of the first permutation whose mapping is valid, between
\* 1 and V!; when it returns the exhaustion failure, no permutation is valid
\* and permutationsChecked is V!.
C21_PermutationCount ==
    (/\ Returned("detectIsomorphism")
     /\ "isIsomorphic" \in DOMAIN result
     /\ \/ result.isIsomorphic = "true"
        \/ result.reason = ExhaustionReason)
    => LET total == Factorial(getVertexCount(g2))
           n == result.permutationsChecked
       IN  /\ Len(permute(g2.vertices)) = total
           /\ IF result.isIsomorphic = "true"
              THEN /\ n \in 1..total
                   /\ ValidAt(n)
                   /\ \A k \in 1..(n - 1) : ~ValidAt(k)
              ELSE /\ n = total
                   /\ \A k \in 1..total : ~ValidAt(k)

\* detectIsomorphism found, on three-vertex graphs, a valid mapping that is
\* not the first permutation
C21_Witness ==
    /\ Returned("detectIsomorphism")
    /\ "isIsomorphic" \in DOMAIN result
    /\ result.isIsomorphic = "true"
    /\ getVertexCount(g1) = 3
    /\ result.permutationsChecked > 1

\* detectIsomorphism tried all six permutations of three vertices and failed
C21_WitnessExhaustion ==
    /\ Returned("detectIsomorphism")
    /\ "isIsomorphic" \in DOMAIN result
    /\ result.isIsomorphic = "false"
    /\ result.reason = ExhaustionReason
    /\ result.permutationsChecked = 6

IsProgress(e) == e.kind = "progress"

\* the objects onProgress was called with, in order
ProgressCalls == SelectSeq(log, IsProgress)

\* C22: detectIsomorphism with an onProgress callback calls it once for
\* every candidate, right after the candidate mapping is built and right
\* before it is validated (the succeeding candidate included); the k-th call
\* carries checked = k and total = V!, checked is at most total, and the
\* number of calls is the returned permutationsChecked.
C22_BruteForceProgress ==
    (/\ Returned("detectIsomorphism")
     /\ call.options.onProgress = "records"
     /\ "permutationsChecked" \in DOMAIN result)
    => /\ Len(ProgressCalls) = result.permutationsChecked
       /\ \A k \in DOMAIN ProgressCalls :
            /\ ProgressCalls[k].checked = k
            /\ ProgressCalls[k].total = Factorial(getVertexCount(g1))
            /\ ProgressCalls[k].checked <= ProgressCalls[k].total
       /\ \A i \in DOMAIN log :
            /\ log[i].kind = "candidate"
               => /\ i + 2 <= Len(log)
                  /\ log[i + 1].kind = "progress"
                  /\ log[i + 1].checked = log[i].n
                  /\ log[i + 2] = Event("validate", log[i].n)
            /\ log[i].kind = "progress"
               => /\ log[i - 1] = Event("candidate", log[i].checked)
                  /\ log[i + 1] = Event("validate", log[i].checked)
            /\ log[i].kind = "validate"
               => log[i - 1].kind = "progress"

\* detectIsomorphism, given a callback, found a valid mapping of three
\* vertices at the third candidate or later, so the callback was also called
\* for the candidate that succeeded
C22_Witness ==
    /\ Returned("detectIsomorphism")
    /\ call.options.onProgress = "records"
    /\ "permutationsChecked" \in DOMAIN result
    /\ result.isIsomorphic = "true"
    /\ result.permutationsChecked >= 3
    /\ Len(ProgressCalls) >= 3

\* C23: detectIsomorphismOptimized with an onProgress callback calls it for
\* the candidates numbered 100, 200, ... and for no other, each time after
\* the candidate is generated and before it is validated: the k-th call
\* carries checked = 100 * k, which is at most permutationsChecked, and the
\* number of calls is floor(permutationsChecked / 100).
C23_OptimizedProgress ==
    (/\ Returned("detectIsomorphismOptimized")
     /\ call.options.onProgress = "records"
     /\ "permutationsChecked" \in DOMAIN result)
    => /\ Len(ProgressCalls) = result.permutationsChecked \div 100
       /\ \A k \in DOMAIN ProgressCalls :
            /\ ProgressCalls[k].checked = 100 * k
            /\ ProgressCalls[k].checked <= result.permutationsChecked
       /\ \A i \in DOMAIN log :
            /\ log[i].kind = "candidate"
               => /\ i + 1 <= Len(log)
                  /\ IF log[i].n % 100 = 0
                     THEN /\ log[i + 1].kind = "progress"
                          /\ log[i + 1].checked = log[i].n
                     ELSE log[i + 1] = Event("validate", log[i].n)
            /\ log[i].kind = "progress"
               => /\ log[i - 1] = Event("candidate", log[i].checked)
                  /\ i + 1 <= Len(log)
                  /\ log[i + 1] = Event("validate", log[i].checked)

\* detectIsomorphismOptimized, given a callback, returned after more than 100
\* candidates and called the callback
C23_Witness ==
    /\ Returned("detectIsomorphismOptimized")
    /\ call.options.onProgress = "records"
    /\ "permutationsChecked" \in DOMAIN result
    /\ result.permutationsChecked > 100
    /\ Len(ProgressCalls) = 1

\* the invocation at which the callback of a call raises
RaisesAt(options) == IF options.onProgress = "raisesFirst" THEN 1 ELSE 2

\* C24: when onProgress raises on one of its invocations, the error leaves
\* the search (no result object is returned), that invocation is the last
\* thing the search did (the reported candidate is not validated, no later
\* candidate is built, onProgress is not called again), and the input graphs
\* are as they were before the call.
C24_CallbackFailureAborts ==
    [][(/\ pc = "build"
        /\ pc' = "called"
        /\ call'.fn \in Searches
        /\ call'.options \in RaisingOptions
        /\ Invocations(log') >= RaisesAt(call'.options))
       => /\ result' = [threw |-> "Error"]
          /\ Invocations(log') = RaisesAt(call'.options)
          /\ log'[Len(log')].kind = "progress"
          /\ \A i \in DOMAIN log' :
                log'[i].kind \in {"candidate", "validate"}
                => /\ log'[i].n <= log'[Len(log')].checked
                   /\ log'[i].kind = "validate" => log'[i].n < log'[Len(log')].checked
          /\ g1' = g1
          /\ g2' = g2]_vars

\* detectIsomorphismOptimized raised what its callback raised at candidate 100
C24_Witness ==
    /\ Returned("detectIsomorphismOptimized")
    /\ call.options \in RaisingOptions
    /\ result = [threw |-> "Error"]
    /\ log[Len(log)].kind = "progress"
    /\ log[Len(log)].checked = 100

\* detectIsomorphism raised what its callback raised at its second invocation
C24_WitnessBruteForce ==
    /\ Returned("detectIsomorphism")
    /\ call.options.onProgress = "raisesSecond"
    /\ result = [threw |-> "Error"]
    /\ log[Len(log)].kind = "progress"
    /\ log[Len(log)].checked = 2

\* the candidates detectIsomorphismOptimized generates for g1 and g2, in order
GeneratedCandidates ==
    LET degreeGroups1 == GroupByDegree(g1, 1, <<>>)
        degreeGroups2 == GroupByDegree(g2, 1, <<>>)
    IN  generateMappings(degreeGroups1, degreeGroups2, MapKeys(degreeGroups1), 0, <<>>)

\* the number of candidates the call passed to isValidMapping
Validated == Cardinality({i \in DOMAIN log : log[i].kind = "validate"})

\* the Map m is a bijection from the vertices of g1 onto those of g2 that
\* sends every vertex to one of the same getDegree
DegreePreservingBijection(m) ==
    /\ Range(MapKeys(m)) = V1
    /\ Len(m) = Cardinality(V1)
    /\ \A v \in V1 : MapGet(m, v) \in V2
    /\ \A u, v \in V1 : u # v => MapGet(m, u) # MapGet(m, v)
    /\ \A w \in V2 : \E v \in V1 : MapGet(m, v) = w
    /\ \A v \in V1 : getDegree(g1, v) = getDegree(g2, MapGet(m, v))

RECURSIVE ProductOfGroupFactorials(_, _)
ProductOfGroupFactorials(g, degrees) ==
    IF degrees = {} THEN 1
    ELSE LET d == CHOOSE x \in degrees : TRUE
         IN  Factorial(CountOfDegree(g, d)) * ProductOfGroupFactorials(g, degrees \ {d})

\* C25: every mapping detectIsomorphismOptimized validates is a complete
\* bijection from the vertices of the first graph onto those of the second
\* that pairs vertices of equal getDegree; a result reached after enumeration
\* carries optimized = true; on exhaustion permutationsChecked is the product
\* over the distinct degree values of the factorial of the size of the
\* degree group, which is at most V!.
C25_DegreePartitionedCandidates ==
    (/\ Returned("detectIsomorphismOptimized")
     /\ \E i \in DOMAIN log : log[i].kind = "generateMappings")
    => /\ Validated <= Len(GeneratedCandidates)
       /\ \A k \in 1..Validated :
            /\ GeneratedCandidates[k].kind = "yield"
            /\ DegreePreservingBijection(GeneratedCandidates[k].mapping)
       /\ "isIsomorphic" \in DOMAIN result
          => /\ "optimized" \in DOMAIN result
             /\ result.optimized = TRUE
             /\ result.permutationsChecked = Validated
             /\ result.isIsomorphic = "false"
                => /\ result.permutationsChecked =
                        ProductOfGroupFactorials(g1, {getDegree(g1, v) : v \in V1})
                   /\ result.permutationsChecked <= Factorial(getVertexCount(g1))

\* detectIsomorphismOptimized exhausted the candidates of two three-vertex
\* graphs with a degree group of two vertices and one of a single vertex:
\* 2 candidates instead of 6
C25_Witness ==
    /\ Returned("detectIsomorphismOptimized")
    /\ "isIsomorphic" \in DOMAIN result
    /\ result.isIsomorphic = "false"
    /\ "optimized" \in DOMAIN result
    /\ getVertexCount(g1) = 3
    /\ result.permutationsChecked = 2

\* every vertex of g has the same getDegree
Regular(g) == \A u, v \in Range(g.vertices) : getDegree(g, u) = getDegree(g, v)

\* the candidates detectIsomorphism builds for g1 and g2, in order
BruteForceCandidates ==
    LET permutations == permute(g2.vertices)
    IN  [k \in DOMAIN permutations |-> SetAll(<<>>, g1.vertices, permutations[k], 1)]

\* C26: for a pair that passes checkInvariants, is within both ceilings and
\* whose vertices all have the same degree, detectIsomorphismOptimized
\* generates the candidate mappings of detectIsomorphism, in the same order,
\* and returns the same isIsomorphic, mapping and permutationsChecked.
C26_RegularDegeneration ==
    (/\ Returned("detectIsomorphismOptimized")
     /\ checkInvariants(g1, g2).ret.isomorphismPossible
     /\ getVertexCount(g1) <= CeilingOf("detectIsomorphism", call.options)
     /\ getVertexCount(g1) <= CeilingOf("detectIsomorphismOptimized", call.options)
     /\ Regular(g1)
     /\ Regular(g2))
    => LET brute == detectIsomorphism(g1, g2, call.options).ret
       IN  /\ Len(GeneratedCandidates) = Len(BruteForceCandidates)
           /\ \A k \in DOMAIN BruteForceCandidates :
                /\ GeneratedCandidates[k].kind = "yield"
                /\ GeneratedCandidates[k].mapping = BruteForceCandidates[k]
           /\ "isIsomorphic" \in DOMAIN result
           /\ result.isIsomorphic = brute.isIsomorphic
           /\ result.mapping = brute.mapping
           /\ result.permutationsChecked = brute.permutationsChecked

\* detectIsomorphismOptimized found, on two graphs of two vertices of equal
\* degree, a valid mapping at the second candidate
C26_Witness ==
    /\ Returned("detectIsomorphismOptimized")
    /\ getVertexCount(g1) = 2
    /\ Len(g1.edges) > 0
    /\ Regular(g1)
    /\ Regular(g2)
    /\ "isIsomorphic" \in DOMAIN result
    /\ result.isIsomorphic = "true"
    /\ result.permutationsChecked = 2

\* the phase an event of a search belongs to
Phase(e) ==
    IF e.kind = "checkInvariants" THEN 1
    ELSE IF e.kind = "sizeCheck" THEN 2
    ELSE 3

CountOfKind(kinds) == Cardinality({i \in DOMAIN log : log[i].kind \in kinds})

\* the numbers of the candidates built, in the order of the log
IsCandidate(e) == e.kind = "candidate"
CandidatesBuilt == SelectSeq(log, IsCandidate)

\* C27: a search goes through Invariant-Check, Size-Check,
\* Enumerating/Validating and Terminated in that order and never back:
\* checkInvariants is evaluated exactly once, first; the vertex count is
\* compared with the ceiling at most once, after that and before any
\* permutation is generated; candidates are generated once each, in order;
\* nothing is generated or validated after the outcome; and a graph with
\* exactly maxVertices vertices is enumerated.
C27_LinearPhases ==
    (pc = "called" /\ call.fn \in Searches)
    => /\ Len(log) >= 1
       /\ log[1].kind = "checkInvariants"
       /\ CountOfKind({"checkInvariants"}) = 1
       /\ CountOfKind({"sizeCheck"}) <= 1
       /\ CountOfKind({"permute", "generateMappings"}) <= 1
       /\ \A i, j \in DOMAIN log : i < j => Phase(log[i]) <= Phase(log[j])
       /\ \A i \in DOMAIN log :
            Phase(log[i]) = 3 => /\ log[2].kind = "sizeCheck"
                                 /\ log[3].kind \in {"permute", "generateMappings"}
       /\ \A k \in DOMAIN CandidatesBuilt : CandidatesBuilt[k].n = k
       /\ "isIsomorphic" \in DOMAIN result
       /\ result.isIsomorphic = "null" => Len(log) = 2 /\ log[2].kind = "sizeCheck"
       /\ (result.isIsomorphic = "false" /\ result.reason = "Invariants do not match")
          => Len(log) = 1
       /\ result.isIsomorphic = "true"
          => log[Len(log)] = Event("validate", result.permutationsChecked)
       /\ "permutationsChecked" \in DOMAIN result
          => /\ Len(CandidatesBuilt) = result.permutationsChecked
             /\ Validated = result.permutationsChecked
       /\ (/\ checkInvariants(g1, g2).ret.isomorphismPossible
           /\ getVertexCount(g1) = MaxVerticesOf(call.options,
                                     IF call.fn = "detectIsomorphism"
                                     THEN DefaultMaxVertices
                                     ELSE DefaultMaxVerticesOptimized))
          => /\ result.isIsomorphic # "null"
             /\ CountOfKind({"candidate"}) >= 1

\* detectIsomorphism, called with maxVertices = 2 on graphs of exactly two
\* vertices, went through all phases and tried both permutations
C27_Witness ==
    /\ Returned("detectIsomorphism")
    /\ call.options.hasMaxVertices
    /\ getVertexCount(g1) = call.options.maxVertices
    /\ "permutationsChecked" \in DOMAIN result
    /\ result.permutationsChecked = 2
    /\ Len(log) > 3

\* the distinct values getDegree takes on the vertices of g
DegreeValues(g) == {getDegree(g, v) : v \in Range(g.vertices)}

\* C28: a pair that passes checkInvariants has the same distinct degree
\* values and, for each, degree groups of equal size; so
\* detectIsomorphismOptimized never returns 'Different number of degree
\* groups', every degree key of the first graph has a group in the second
\* (generateMappings does not fail) and every candidate gives every vertex
\* of the first graph an image (no undefined value).
C28_DegreeGroupsMatch ==
    checkInvariants(g1, g2).ret.isomorphismPossible
    => /\ DegreeValues(g1) = DegreeValues(g2)
       /\ \A d \in DegreeValues(g1) : CountOfDegree(g1, d) = CountOfDegree(g2, d)
       /\ Len(GroupByDegree(g1, 1, <<>>)) = Len(GroupByDegree(g2, 1, <<>>))
       /\ \A k \in DOMAIN GeneratedCandidates :
            /\ GeneratedCandidates[k].kind = "yield"
            /\ \A v \in V1 : /\ MapHas(GeneratedCandidates[k].mapping, v)
                             /\ MapGet(GeneratedCandidates[k].mapping, v) # Undefined
       /\ Returned("detectIsomorphismOptimized")
          => /\ "isIsomorphic" \in DOMAIN result
             /\ "reason" \in DOMAIN result
                => result.reason # "Different number of degree groups"

\* detectIsomorphismOptimized enumerated the candidates of two three-vertex
\* graphs that pass the invariants and have two degree groups each
C28_Witness ==
    /\ Returned("detectIsomorphismOptimized")
    /\ checkInvariants(g1, g2).ret.isomorphismPossible
    /\ getVertexCount(g1) = 3
    /\ Cardinality(DegreeValues(g1)) = 2
    /\ "permutationsChecked" \in DOMAIN result

\* C29: within both ceilings, when detectIsomorphism and
\* detectIsomorphismOptimized both find a mapping, or both exhaust their
\* candidates, detectIsomorphismOptimized has checked at most as many
\* candidates as detectIsomorphism.
C29_NeverMoreCandidates ==
    (/\ Returned("detectIsomorphismOptimized")
     /\ getVertexCount(g1) <= CeilingOf("detectIsomorphism", call.options)
     /\ getVertexCount(g1) <= CeilingOf("detectIsomorphismOptimized", call.options)
     /\ "permutationsChecked" \in DOMAIN result
     /\ "permutationsChecked" \in DOMAIN detectIsomorphism(g1, g2, call.options).ret
     /\ result.isIsomorphic = detectIsomorphism(g1, g2, call.options).ret.isIsomorphic)
    => result.permutationsChecked
         <= detectIsomorphism(g1, g2, call.options).ret.permutationsChecked

\* C29, amended: within both ceilings detectIsomorphismOptimized never
\* checks more than V! candidates, and when both searches exhaust their
\* candidates it has checked at most as many as detectIsomorphism; when both
\* find a mapping the two counts are not ordered.
C29_NeverMoreOnExhaustion ==
    (/\ Returned("detectIsomorphismOptimized")
     /\ getVertexCount(g1) <= CeilingOf("detectIsomorphism", call.options)
     /\ getVertexCount(g1) <= CeilingOf("detectIsomorphismOptimized", call.options)
     /\ "permutationsChecked" \in DOMAIN result)
    => /\ result.permutationsChecked <= Factorial(getVertexCount(g1))
       /\ (/\ result.isIsomorphic = "false"
           /\ detectIsomorphism(g1, g2, call.options).ret.isIsomorphic = "false")
          => result.permutationsChecked
               <= detectIsomorphism(g1, g2, call.options).ret.permutationsChecked

\* both searches exhausted their candidates on the same five-vertex graphs,
\* detectIsomorphismOptimized after 3! * 2! = 12 candidates, detectIsomorphism
\* after 120
C29_Witness ==
    /\ Returned("detectIsomorphismOptimized")
    /\ "permutationsChecked" \in DOMAIN result
    /\ result.isIsomorphic = "false"
    /\ result.permutationsChecked = 12
    /\ detectIsomorphism(g1, g2, call.options).ret.isIsomorphic = "false"
    /\ detectIsomorphism(g1, g2, call.options).ret.permutationsChecked = 120

\* both searches found a mapping of two directed graphs without loops or
\* repeated edges, detectIsomorphismOptimized at a later candidate than
\* detectIsomorphism
C29_WitnessLater ==
    /\ Returned("detectIsomorphismOptimized")
    /\ "permutationsChecked" \in DOMAIN result
    /\ g1.isDirected /\ g2.isDirected
    /\ result.isIsomorphic = "true"
    /\ detectIsomorphism(g1, g2, call.options).ret.isIsomorphic = "true"
    /\ result.permutationsChecked
         > detectIsomorphism(g1, g2, call.options).ret.permutationsChecked

RECURSIVE SumOfDegrees(_, _)
\* getDegree(v) summed over the vertices of g from the i-th on
SumOfDegrees(g, i) ==
    IF i > Len(g.vertices) THEN 0
    ELSE getDegree(g, g.vertices[i]) + SumOfDegrees(g, i + 1)

\* C30: getEdgeCount() is 0 on a new Graph, every addEdge call raises it by
\* exactly 1 (a repeated edge and a self-loop included, directed or not) and
\* no other call changes it, so it is the number of addEdge calls made; and
\* the sum of getDegree over the vertices is 2 * getEdgeCount() on an
\* undirected Graph and getEdgeCount() on a directed one.
C30_EdgeAndDegreeAccounting ==
    /\ getEdgeCount(g1) = 0
    /\ [][getEdgeCount(g1') =
            getEdgeCount(g1) + (IF call'.fn = "addEdge" THEN 1 ELSE 0)]_vars
    /\ [](SumOfDegrees(g1, 1) =
            (IF g1.isDirected THEN 1 ELSE 2) * getEdgeCount(g1))

\* a Graph after three addEdge calls, one of them a self-loop and two of
\* them the same edge
C30_Witness ==
    /\ getEdgeCount(g1) = 3
    /\ \E i \in DOMAIN g1.edges : g1.edges[i][1] = g1.edges[i][2]
    /\ \E i, j \in DOMAIN g1.edges : i # j /\ g1.edges[i] = g1.edges[j]
    /\ SumOfDegrees(g1, 1) = (IF g1.isDirected THEN 3 ELSE 6)

====
